---------------------------- MODULE Spec2Model ----------------------------
(***************************************************************************)
(* A model of the WyreStorm NetworkHD data coordinator                     *)
(* (custom_components/wyrestorm_networkhd/coordinator.py): the poll        *)
(* routine with its nested retry loops and reconnects, the setup routine   *)
(* that registers the notification callbacks, and the two notification     *)
(* handlers that patch the published snapshot between polls.               *)
(*                                                                         *)
(* Python values are written as strings: None is "None", True is "True",   *)
(* False is "False", the integer 0 is "int0", the empty string is "".      *)
(* An attribute whose access raises an exception that the extraction       *)
(* helpers do not catch is written "RAISES".                               *)
(***************************************************************************)
EXTENDS Integers, Sequences, FiniteSets, TLC

\* const.RETRY_ATTEMPTS, imported at coordinator.py:18. Its value is not part
\* of the sources; the loops below are written for any value >= 1.
RETRY_ATTEMPTS == 2

\* Total number of refreshes started after setup.
MaxPolls == 2

None == "None"
Raise == "<raise>"

---------------------------------------------------------------------------
(* Python conversions used by the extraction helpers.                      *)

Falsy == {"None", "False", "int0", ""}

\* bool(v)
PyBool(v) == IF v \in Falsy THEN "False" ELSE "True"

\* str(v)
PyStr(v) == IF v = "int0" THEN "0" ELSE v

\* a or b
PyOr(a, b) == IF a \in Falsy THEN b ELSE a

\* v == s, as a Python bool
PyEq(v, s) == IF v = s THEN "True" ELSE "False"

---------------------------------------------------------------------------
(* Notification payloads.  kind "obj" is a typed object whose attributes   *)
(* are the domain of f, kind "dict" a mapping whose keys are the domain of *)
(* f, kind "other" any other value (None, a number, a string).             *)

Payload(k, fn) == [kind |-> k, f |-> fn]

NoFields == [x \in {} |-> None]

hasattr(n, a) == n.kind = "obj" /\ a \in DOMAIN n.f

isdict(n) == n.kind = "dict"

\* notification.get(key): None for a missing key
dictget(n, key) == IF key \in DOMAIN n.f THEN n.f[key] ELSE None

\* The `or` chain of the dict branch of _extract_device_id_from_notification
DictDeviceId(n) ==
    PyOr(PyOr(dictget(n, "device_id"), dictget(n, "device")), dictget(n, "aliasName"))

\* _extract_device_id_from_notification: a string, None or Raise
extract_device_id_from_notification(n) ==
    IF hasattr(n, "device_id")
    THEN IF n.f["device_id"] = "RAISES" THEN Raise
         ELSE IF n.f["device_id"] # None THEN PyStr(n.f["device_id"]) ELSE None
    ELSE IF hasattr(n, "device")
    THEN IF n.f["device"] = "RAISES" THEN Raise
         ELSE IF n.f["device"] # None THEN PyStr(n.f["device"]) ELSE None
    ELSE IF isdict(n)
    THEN IF DictDeviceId(n) # None THEN PyStr(DictDeviceId(n)) ELSE None
    ELSE None

\* _extract_online_status_from_notification: "True", "False", None or Raise
extract_online_status_from_notification(n) ==
    IF hasattr(n, "online")
    THEN IF n.f["online"] = "RAISES" THEN Raise
         ELSE IF n.f["online"] # None THEN PyBool(n.f["online"]) ELSE None
    ELSE IF hasattr(n, "status")
    THEN IF n.f["status"] = "RAISES" THEN Raise
         ELSE IF n.f["status"] # None THEN PyEq(n.f["status"], "online") ELSE None
    ELSE IF isdict(n)
    THEN IF dictget(n, "online") # None THEN PyBool(dictget(n, "online"))
         ELSE IF "status" \in DOMAIN n.f
         THEN IF n.f["status"] # None THEN PyEq(n.f["status"], "online") ELSE None
         ELSE None
    ELSE None

\* The shared shape of the two HDMI extraction helpers: attr is the
\* attribute and first mapping key, key the second mapping key.
extract_hdmi(n, attr, key) ==
    IF hasattr(n, attr)
    THEN IF n.f[attr] = "RAISES" THEN Raise
         ELSE IF n.f[attr] # None THEN PyBool(n.f[attr]) ELSE None
    ELSE IF isdict(n)
    THEN IF dictget(n, attr) # None THEN PyBool(dictget(n, attr))
         ELSE IF key \in DOMAIN n.f
         THEN IF n.f[key] # None THEN PyEq(n.f[key], "true") ELSE None
         ELSE None
    ELSE None

\* _extract_hdmi_in_status_from_notification
extract_hdmi_in_status_from_notification(n) ==
    extract_hdmi(n, "hdmi_in_active", "hdmi in active")

\* _extract_hdmi_out_status_from_notification
extract_hdmi_out_status_from_notification(n) ==
    extract_hdmi(n, "hdmi_out_active", "hdmi out active")

---------------------------------------------------------------------------
(* Strings: the two string operations the poll routine uses, on the        *)
(* strings that occur in the model.                                        *)

\* str.lower()
Lower(s) ==
    CASE s = "Connection reset" -> "connection reset"
      [] s = "Not connected" -> "not connected"
      [] s \in {"Transmitter", "TRANSMITTER"} -> "transmitter"
      [] s \in {"Receiver", "RECEIVER"} -> "receiver"
      [] OTHER -> s

\* sub in s, for the strings s and sub of the model
Contains(s, sub) ==
    <<s, sub>> \in { <<"Not connected", "Not connected">>,
                     <<"connection reset", "connection">>,
                     <<"NHD-400-TX", "TX">>,
                     <<"NHD-400-RX", "RX">> }

\* Texts of the exceptions a query raises.
ErrTexts == {"Not connected", "Connection reset", "timeout"}

\* A variant of IsConnectionError that compares both texts case-sensitively.
IsConnectionError_CaseSensitive(e) ==
    Contains(e, "Not connected") \/ Contains(e, "connection")

\* coordinator.py:446, 478, 510: the test that decides on a reconnect
IsConnectionError(e) ==
    Contains(e, "Not connected") \/ Contains(Lower(e), "connection")

---------------------------------------------------------------------------
(* Query responses.                                                        *)

JsonItem(a, t, o) == [aliasName |-> a, deviceType |-> t, online |-> o]
TXon == JsonItem("TX1", "Transmitter", TRUE)
RXon == JsonItem("RX1", "receiver", TRUE)
RXoff == JsonItem("RX1", "receiver", FALSE)
UnknownItem == JsonItem("unknown", "receiver", TRUE)
NoAliasItem == JsonItem(None, "receiver", TRUE)
NullTypeItem == JsonItem("TX1", None, TRUE)

JsonList(items) == [list |-> TRUE, items |-> items]
NotAList == [list |-> FALSE, items |-> << >>]

\* What config_get_devicejsonstring() may return.
JsonResponses ==
    { JsonList(<< >>), JsonList(<<TXon, RXon>>), JsonList(<<TXon, RXoff>>),
      JsonList(<<NoAliasItem, UnknownItem>>), JsonList(<<NullTypeItem, RXon>>) }

StatusItem(a, n, i, o, r) ==
    [aliasname |-> a, name |-> n, hdmi_in |-> i, hdmi_out |-> o, resolution |-> r]
TXstat == StatusItem("TX1", "NHD-400-TX", "true", "false", "1080p")
RXstat == StatusItem("RX1", "NHD-400-RX", "false", "true", "1080p")
RXidle == StatusItem("RX1", "NHD-400-RX", "false", "false", None)

StatusDict(items) == [kind |-> "dict", items |-> items]
StatusNoKey == [kind |-> "nokey", items |-> << >>]
StatusNotDict == [kind |-> "notdict", items |-> << >>]

\* What config_get_device_status() may return.
StatusResponses ==
    { StatusDict(<<RXstat>>), StatusDict(<<TXstat, RXidle>>), StatusNotDict }

Assignment(r, t) == [rx |-> r, tx |-> t]
MatrixObj(as) == [kind |-> "obj", assignments |-> as]
MatrixNone == [kind |-> "None", assignments |-> << >>]
MatrixJunk == [kind |-> "junk", assignments |-> << >>]

\* What matrix_get() may return.
MatrixResponses ==
    { MatrixNone, MatrixObj(<<Assignment("RX1", "TX1")>>) }

---------------------------------------------------------------------------
(* Validation of the query responses.                                      *)

\* _validate_device_json: the items that are mappings with a truthy aliasName
validate_device_json(r) ==
    IF ~r.list THEN << >>
    ELSE SelectSeq(r.items, LAMBDA it : it.aliasName \notin Falsy)

\* _validate_device_status: has is whether the result is a non-empty mapping
validate_device_status(r) ==
    IF r.kind # "dict" THEN [has |-> FALSE, items |-> << >>]
    ELSE [has |-> TRUE,
          items |-> SelectSeq(r.items, LAMBDA it : it.aliasname \notin Falsy)]

\* _validate_matrix_response: has is whether the result is a non-empty mapping
validate_matrix_response(r) ==
    IF r.kind # "obj" THEN [has |-> FALSE, assignments |-> << >>]
    ELSE [has |-> TRUE, assignments |-> r.assignments]

\* coordinator.py:520: "if we got any valid data"
AnyValid(vj, vm, vs) == vj # << >> \/ vm.has \/ vs.has

---------------------------------------------------------------------------
(* The merge of one poll (coordinator.py:530-685).                         *)

EmptyDevices == [d \in {} |-> None]

\* Index of the last item of vj whose aliasName is id: a dict built by
\* assignment in list order keeps the last item of each key.
LastJsonIndex(vj, id) ==
    CHOOSE i \in DOMAIN vj :
        /\ vj[i].aliasName = id
        /\ \A j \in DOMAIN vj : vj[j].aliasName = id => j <= i

\* Index of the last item of items whose aliasname is id.
LastStatusIndex(items, id) ==
    CHOOSE i \in DOMAIN items :
        /\ items[i].aliasname = id
        /\ \A j \in DOMAIN items : items[j].aliasname = id => j <= i

\* device_json_dict.keys(): the alias "unknown" is left out (coordinator.py:537)
JsonIds(vj) == {vj[i].aliasName : i \in DOMAIN vj} \ {"unknown"}

\* device_status_dict.keys(): the alias "unknown" is left out (coordinator.py:547)
StatusIds(vs) == {vs.items[i].aliasname : i \in DOMAIN vs.items} \ {"unknown"}

\* device_json_dict[id]
JsonData(vj, id) == vj[LastJsonIndex(vj, id)]

\* device_status_dict[id]
StatusData(vs, id) == vs.items[LastStatusIndex(vs.items, id)]

\* json_data.get("deviceType", ""), before .lower()
RawDeviceType(vj, id) == IF id \in JsonIds(vj) THEN JsonData(vj, id).deviceType ELSE ""

\* coordinator.py:566: .lower() of a deviceType that is null raises
MergeRaises(vj, vs) ==
    \E id \in JsonIds(vj) \cup StatusIds(vs) : RawDeviceType(vj, id) = None

\* status_data.get("name", "")
StatusName(vs, id) == IF id \in StatusIds(vs) THEN StatusData(vs, id).name ELSE ""

\* coordinator.py:566-579: the role of a device
DeviceTypeOf(vj, vs, id) ==
    IF Lower(RawDeviceType(vj, id)) = "transmitter" THEN "encoder"
    ELSE IF Lower(RawDeviceType(vj, id)) = "receiver" THEN "decoder"
    ELSE IF Contains(StatusName(vs, id), "TX") THEN "encoder"
    ELSE IF Contains(StatusName(vs, id), "RX") THEN "decoder"
    ELSE "decoder"

\* coordinator.py:587-607: the entry of a device before its status is added
DefaultDevice(vj, vs, id) ==
    [type |-> DeviceTypeOf(vj, vs, id),
     online |-> IF id \in JsonIds(vj) THEN JsonData(vj, id).online ELSE FALSE,
     current_source |-> None,
     available_sources |-> {},
     power_state |-> "unknown",
     hdmi_in_active |-> FALSE,
     hdmi_out_active |-> FALSE,
     resolution |-> None]

\* coordinator.py:610-629: the status fields of a device that has status data
WithStatus(dev, st) ==
    [dev EXCEPT !.power_state =
                    IF st.hdmi_in = "true" \/ st.hdmi_out = "true" THEN "on" ELSE "off",
                !.hdmi_in_active = (st.hdmi_in = "true"),
                !.hdmi_out_active = (st.hdmi_out = "true"),
                !.resolution = st.resolution]

\* coordinator.py:587-629: one processed device
ProcessedDevice(vj, vs, id) ==
    IF id \in StatusIds(vs)
    THEN WithStatus(DefaultDevice(vj, vs, id), StatusData(vs, id))
    ELSE DefaultDevice(vj, vs, id)

\* A variant of ProcessDevices that keeps only the devices that have status
\* data.
ProcessDevices_OnlyWithStatus(vj, vs) ==
    [id \in StatusIds(vs) |-> ProcessedDevice(vj, vs, id)]

\* coordinator.py:531-638: processed_devices before the matrix is applied
ProcessDevices(vj, vs) ==
    [id \in JsonIds(vj) \cup StatusIds(vs) |-> ProcessedDevice(vj, vs, id)]

\* coordinator.py:658-671: the assignments applied in list order
RECURSIVE ApplyAssignments(_, _)
ApplyAssignments(devs, as) ==
    IF as = << >> THEN devs
    ELSE LET a == Head(as)
             next == IF a.rx \in DOMAIN devs
                     THEN [devs EXCEPT ![a.rx].current_source = a.tx]
                     ELSE devs
         IN ApplyAssignments(next, Tail(as))

\* coordinator.py:674-682: every decoder is given the list of all encoders
WithAvailableSources(devs) ==
    LET encoder_devices == {d \in DOMAIN devs : devs[d].type = "encoder"}
    IN [d \in DOMAIN devs |->
            IF devs[d].type = "decoder"
            THEN [devs[d] EXCEPT !.available_sources = encoder_devices]
            ELSE devs[d]]

\* coordinator.py:652-685: the matrix step, taken only with devices and a
\* non-empty validated matrix
ProcessMatrix(devs, vm) ==
    IF DOMAIN devs # {} /\ vm.has
    THEN WithAvailableSources(ApplyAssignments(devs, vm.assignments))
    ELSE devs

\* coordinator.py:531-685: the devices collection of one poll
MergedDevices(vj, vm, vs) == ProcessMatrix(ProcessDevices(vj, vs), vm)

---------------------------------------------------------------------------
(* State.                                                                  *)

VARIABLES
    data,          \* self.data: the published snapshot, NoData for None
    connected,     \* the transport's is_connected()
    registered,    \* the notification callbacks are registered
    s_pc,          \* async_setup: "connect", "sleep", "fetch", "final_fetch", "done", "failed"
    s_attempt,     \* async_setup: attempt
    pc,            \* _async_update_data: "idle", "query", "reconnect", "sleep", "merge", "outer_sleep"
    caller,        \* who awaits _async_update_data: "none", "setup", "setup_final", "refresh"
    attempt,       \* _async_update_data: attempt
    stage,         \* the query loop being run: "json", "matrix", "status"
    qattempt,      \* dev_attempt / matrix_attempt / status_attempt
    err,           \* text of the exception of the failed attempt, None if none
    device_json,   \* local device_json
    matrix,        \* local matrix
    device_status, \* local device_status
    polls,         \* refreshes started
    escaped,       \* the last notification callback let an exception escape
    tracing,       \* constant: whether this run keeps the history variables below
    calls,         \* history: invocations of each query RPC in the last execution started
    anyReturned,   \* history: some query of that execution returned without raising
    notification,  \* history: the payload of the last notification
    extracted,     \* history: the device id extracted from it, "n/a" if none was
    last,          \* history: what the last step did
    notification_task, \* self._notification_task: "None", "pending", "done", "cancelled"
    data2,         \* self.data of the wyrestorm_networkhd_2 coordinator
    op,            \* the shutdown, command or service call that is running
    events,        \* history: the calls made by async_setup and by the operations op runs
    entry,         \* async_setup_entry: where it stands and what it has brought up
    hass,          \* hass.data[DOMAIN], the registered services and each config entry
    cache          \* cache_for_seconds: the closure's cache and the calls of the wrapper

history == <<calls, anyReturned, notification, extracted, last>>

\* The state of shutdown, of the commands and of the services.
others == <<events, notification_task, op, data2, entry, hass, cache>>

pollVars == <<pc, caller, attempt, stage, qattempt, err, device_json, matrix, device_status>>

vars == <<data, connected, registered, s_pc, s_attempt, pollVars, polls, escaped,
          tracing, history, others>>

Queries == {"json", "matrix", "status"}

\* The values of the three locals before their query has run.
NoJson == NotAList
NoMatrix == MatrixNone
NoStatus == StatusNoKey

\* The defaults [], {} and {} a query loop stores when its last attempt fails.
DefaultJson == JsonList(<< >>)
DefaultMatrix == MatrixJunk
DefaultStatus == StatusNoKey

NoNotification == Payload("other", NoFields)

(* Snapshots.  exists is FALSE for self.data = None; obj is the identity   *)
(* of the dict object (the number of the poll that built it); error is     *)
(* whether the dict has the key "error".                                   *)

NoData == [exists |-> FALSE, obj |-> 0, devices |-> EmptyDevices, error |-> FALSE]

\* coordinator.py:689-698: the dict a successful attempt returns
GoodSnapshot(o, devs) == [exists |-> TRUE, obj |-> o, devices |-> devs, error |-> FALSE]

\* A variant of ErrorSnapshot that carries the devices of the snapshot it
\* replaces.
ErrorSnapshot_KeepsDevices(o) ==
    [exists |-> TRUE, obj |-> o, devices |-> data.devices, error |-> TRUE]

\* coordinator.py:727-733: the dict returned when every attempt failed
ErrorSnapshot(o) == [exists |-> TRUE, obj |-> o, devices |-> EmptyDevices, error |-> TRUE]

\* The coordinator after construction, about to be set up.
Constructed ==
    /\ connected = FALSE
    /\ registered = FALSE
    /\ s_pc = "connect"

\* No execution of _async_update_data is running.
UpdateIdle ==
    /\ pc = "idle"
    /\ caller = "none"
    /\ attempt = 0
    /\ stage = "json"
    /\ qattempt = 0
    /\ err = None
    /\ device_json = NoJson
    /\ matrix = NoMatrix
    /\ device_status = NoStatus

NoHistory ==
    /\ calls = [q \in Queries |-> 0]
    /\ anyReturned = FALSE
    /\ notification = NoNotification
    /\ extracted = "n/a"
    /\ last = "init"

\* No shutdown, command or service call is running.
Idle == [name |-> "none", pc |-> "idle", args |-> << >>, i |-> 0, successful_devices |-> << >>]

\* wyrestorm_networkhd_2/coordinator.py:60-86: self.data of DataUpdateCoordinator is
\* None until a refresh has stored a CoordinatorData
NoData2 == [exists |-> FALSE, obj |-> 0, transmitters |-> << >>, receivers |-> << >>]

\* async_setup_entry has not been called: no coordinator is stored in
\* hass.data, no platform is forwarded and no service is registered.
NoEntry ==
    [pc |-> "idle", exception |-> None,
     stored |-> FALSE, forwarded |-> FALSE, services |-> FALSE]

\* The config entries of the integration.
Entries == {"e1", "e2"}

\* The place of a coordinator that does not exist.
NoCoordinator == << >>

\* No config entry has been set up: hass.data[DOMAIN] holds no coordinator,
\* no service is registered and no coordinator has been constructed.
NoHass ==
    [data |-> << >>,
     services |-> NoCoordinator,
     pc |-> [e \in Entries |-> "not_loaded"],
     setups |-> [e \in Entries |-> 0],
     shut_down |-> {},
     executed |-> NoCoordinator]

\* The arguments a cached method is called with.
CacheArgs == {"a", "b"}

\* No underlying call has completed, no call of the wrapper has returned.
NeverCompleted == [result |-> None, time |-> 0, valid |-> FALSE]
NeverReturned == [args |-> None, result |-> None, invoked |-> FALSE]

\* _cache_utils.py:36-37: cache and cache_time are empty when the method is
\* decorated; no call of the wrapper is running.
NoCache ==
    [cache |-> << >>,
     cache_time |-> << >>,
     time |-> 0,
     running |-> {},
     completed |-> [k \in CacheArgs |-> NeverCompleted],
     returned |-> NeverReturned]

\* coordinator.py:71: no notification task; no operation has been called.
NoOperation ==
    /\ notification_task = None
    /\ data2 = NoData2
    /\ op = Idle
    /\ events = << >>
    /\ entry = NoEntry
    /\ hass = NoHass
    /\ cache = NoCache

Init ==
    /\ data = NoData
    /\ Constructed
    /\ s_attempt = 0
    /\ UpdateIdle
    /\ polls = 0
    /\ escaped = FALSE
    /\ tracing = FALSE
    /\ NoHistory
    /\ NoOperation

\* The step is recorded as tag.
Trace(tag) == last' = IF tracing THEN tag ELSE last

\* The call e is appended to the record of calls.
Log(e) == events' = IF tracing THEN Append(events, e) ELSE events

---------------------------------------------------------------------------
(* _async_update_data (coordinator.py:406-733).  Each action runs from one *)
(* await to the next; the code between the return of the last query and    *)
(* the return of the routine has no await, so nothing else runs while pc   *)
(* is "merge".                                                             *)

\* coordinator.py:406-424: the routine runs up to its first query
StartUpdate(c) ==
    /\ pc' = "query"
    /\ caller' = c
    /\ attempt' = 0
    /\ stage' = "json"
    /\ qattempt' = 0
    /\ err' = None
    /\ device_json' = NoJson
    /\ matrix' = NoMatrix
    /\ device_status' = NoStatus
    /\ calls' = [q \in Queries |-> 0]
    /\ anyReturned' = FALSE

\* The local of the running query loop is set to r and the next loop begins
\* (after the status loop, the validation and merge).
StoreAndAdvance(r) ==
    /\ device_json' = IF stage = "json" THEN r ELSE device_json
    /\ matrix' = IF stage = "matrix" THEN r ELSE matrix
    /\ device_status' = IF stage = "status" THEN r ELSE device_status
    /\ stage' = IF stage = "json" THEN "matrix" ELSE "status"
    /\ pc' = IF stage = "status" THEN "merge" ELSE "query"
    /\ qattempt' = 0
    /\ err' = None

ResponsesOf(q) ==
    IF q = "json" THEN JsonResponses
    ELSE IF q = "matrix" THEN MatrixResponses ELSE StatusResponses

DefaultOf(q) ==
    IF q = "json" THEN DefaultJson
    ELSE IF q = "matrix" THEN DefaultMatrix ELSE DefaultStatus

\* One more invocation of query q.
Counted(q) == IF tracing THEN [calls EXCEPT ![q] = @ + 1] ELSE calls

\* coordinator.py:424-429, 459-461, 491-493: the awaited query returns r
QueryReturns ==
    /\ pc = "query"
    /\ \E r \in ResponsesOf(stage) : StoreAndAdvance(r)
    /\ calls' = Counted(stage)
    /\ anyReturned' = tracing
    /\ Trace("query_returned")
    /\ UNCHANGED <<data, connected, registered, s_pc, s_attempt, caller, attempt, polls,
                   escaped, tracing, others, notification, extracted>>

\* A variant of LastAttempt that lets each query loop run one attempt more.
LastAttempt_OneMore(k) == k = RETRY_ATTEMPTS

\* coordinator.py:431, 463, 495: the failed attempt was the last of its loop
LastAttempt(k) == k = RETRY_ATTEMPTS - 1

\* coordinator.py:430-448, 462-480, 494-512: the awaited query raises e
QueryRaises ==
    /\ pc = "query"
    /\ \E e \in ErrTexts :
        /\ err' = e
        /\ IF LastAttempt(qattempt)
           THEN /\ device_json' = IF stage = "json" THEN DefaultJson ELSE device_json
                /\ matrix' = IF stage = "matrix" THEN DefaultMatrix ELSE matrix
                /\ device_status' = IF stage = "status" THEN DefaultStatus ELSE device_status
                /\ stage' = IF stage = "json" THEN "matrix" ELSE "status"
                /\ pc' = IF stage = "status" THEN "merge" ELSE "query"
                /\ qattempt' = 0
                /\ Trace("query_exhausted")
           ELSE /\ pc' = IF IsConnectionError(e) THEN "reconnect" ELSE "sleep"
                /\ Trace("query_failed")
                /\ UNCHANGED <<device_json, matrix, device_status, stage, qattempt>>
    /\ calls' = Counted(stage)
    /\ UNCHANGED <<data, connected, registered, s_pc, s_attempt, caller, attempt, polls,
                   escaped, tracing, others, anyReturned, notification, extracted>>

\* _attempt_reconnect (coordinator.py:387-404), awaited at 447, 479, 511
attempt_reconnect ==
    /\ pc = "reconnect"
    /\ IF connected
       THEN /\ Trace("reconnect_skipped")
            /\ UNCHANGED connected
       ELSE \E ok \in BOOLEAN :
            /\ connected' = ok
            /\ Trace(IF ok THEN "reconnect_connected" ELSE "reconnect_failed")
    /\ pc' = "sleep"
    /\ UNCHANGED <<data, registered, s_pc, s_attempt, caller, attempt, stage, qattempt,
                   err, device_json, matrix, device_status, polls, escaped, tracing, others,
                   calls, anyReturned, notification, extracted>>

\* coordinator.py:448, 480, 512: asyncio.sleep(RETRY_DELAY), then the next attempt
RetrySleep ==
    /\ pc = "sleep"
    /\ pc' = "query"
    /\ qattempt' = qattempt + 1
    /\ err' = None
    /\ Trace("retry_sleep")
    /\ UNCHANGED <<data, connected, registered, s_pc, s_attempt, caller, attempt, stage,
                   device_json, matrix, device_status, polls, escaped, tracing, others,
                   calls, anyReturned, notification, extracted>>

\* coordinator.py:514-723: what one attempt does once its three loops are
\* over: "return" the merged data, "retry" the whole operation after a
\* sleep, or "fail" (break out of the attempt loop)
AttemptOutcome(vj, vm, vs, att) ==
    IF AnyValid(vj, vm, vs) /\ ~MergeRaises(vj, vs) THEN "return"
    ELSE IF att < RETRY_ATTEMPTS - 1 THEN "retry"
    ELSE "fail"

\* A variant of ReturnData whose refresh adds the devices of the previous
\* snapshot that the new one lacks.
ReturnData_KeepsOldDevices(snap) ==
    /\ data' = IF caller = "refresh"
               THEN [snap EXCEPT !.devices = snap.devices @@ data.devices]
               ELSE data
    /\ s_pc' = IF caller = "setup" THEN "done"
               ELSE IF caller = "setup_final" THEN "failed" ELSE s_pc
    /\ Trace((IF caller = "refresh" THEN "refresh" ELSE "setup_fetch")
             \o (IF snap.error THEN "_error" ELSE "_ok"))
    /\ pc' = "idle"
    /\ caller' = "none"
    /\ device_json' = NoJson
    /\ matrix' = NoMatrix
    /\ device_status' = NoStatus
    /\ attempt' = 0
    /\ stage' = "json"
    /\ qattempt' = 0
    /\ err' = None
    /\ s_attempt' = 0

\* The routine returns snap to its caller.  DataUpdateCoordinator's refresh
\* stores it in self.data; async_setup (coordinator.py:94, 120) drops it.
ReturnData(snap) ==
    /\ data' = IF caller = "refresh" THEN snap ELSE data
    /\ s_pc' = IF caller = "setup" THEN "done"
               ELSE IF caller = "setup_final" THEN "failed" ELSE s_pc
    /\ Trace((IF caller = "refresh" THEN "refresh" ELSE "setup_fetch")
             \o (IF snap.error THEN "_error" ELSE "_ok"))
    /\ pc' = "idle"
    /\ caller' = "none"
    /\ device_json' = NoJson
    /\ matrix' = NoMatrix
    /\ device_status' = NoStatus
    /\ attempt' = 0
    /\ stage' = "json"
    /\ qattempt' = 0
    /\ err' = None
    /\ s_attempt' = 0

\* coordinator.py:514-733: validation, merge and the end of the attempt
ProcessResults ==
    /\ pc = "merge"
    /\ LET vj == validate_device_json(device_json)
           vm == validate_matrix_response(matrix)
           vs == validate_device_status(device_status)
           outcome == AttemptOutcome(vj, vm, vs, attempt)
       IN IF outcome = "return"
          THEN ReturnData(GoodSnapshot(polls, MergedDevices(vj, vm, vs)))
          ELSE IF outcome = "retry"
          THEN /\ pc' = "outer_sleep"
               /\ Trace("attempt_failed")
               /\ UNCHANGED <<data, s_pc, s_attempt, caller, attempt, stage, qattempt, err,
                              device_json, matrix, device_status>>
          ELSE ReturnData(ErrorSnapshot(polls))
    /\ UNCHANGED <<connected, registered, polls, escaped, tracing, others, calls, anyReturned,
                   notification, extracted>>

\* coordinator.py:707, 720: asyncio.sleep(RETRY_DELAY), then the next attempt
OuterSleep ==
    /\ pc = "outer_sleep"
    /\ pc' = "query"
    /\ attempt' = attempt + 1
    /\ stage' = "json"
    /\ qattempt' = 0
    /\ err' = None
    /\ device_json' = NoJson
    /\ matrix' = NoMatrix
    /\ device_status' = NoStatus
    /\ Trace("outer_sleep")
    /\ UNCHANGED <<data, connected, registered, s_pc, s_attempt, caller, polls, escaped,
                   tracing, others, calls, anyReturned, notification, extracted>>

---------------------------------------------------------------------------
(* async_setup (coordinator.py:73-121).                                    *)

\* coordinator.py:85-94, 103-120: the awaited connect() returns or raises
SetupConnect ==
    /\ s_pc = "connect"
    /\ \E ok \in BOOLEAN :
        IF ok
        THEN /\ connected' = TRUE
             /\ registered' = TRUE
             /\ s_pc' = "fetch"
             /\ StartUpdate("setup")
             /\ Trace("setup_connected")
             /\ Log("connect_ok")
             /\ UNCHANGED s_attempt
        ELSE IF s_attempt < RETRY_ATTEMPTS - 1
        THEN /\ s_pc' = "sleep"
             /\ Trace("setup_retry")
             /\ Log("connect_failed")
             /\ UNCHANGED <<connected, registered, s_attempt, pollVars,
                            calls, anyReturned>>
        ELSE /\ s_pc' = "final_fetch"
             /\ StartUpdate("setup_final")
             /\ Trace("setup_failed")
             /\ Log("connect_failed")
             /\ UNCHANGED <<connected, registered, s_attempt>>
    /\ UNCHANGED <<data, polls, escaped, tracing, notification_task, op, data2, entry, hass, cache,
                   notification, extracted>>

\* A variant of SetupSleep that does not count the attempt.
SetupSleep_KeepsAttempt ==
    /\ s_pc = "sleep"
    /\ s_pc' = "connect"
    /\ Trace("setup_sleep")
    /\ UNCHANGED <<data, connected, registered, s_attempt, pollVars, polls, escaped,
                   tracing, others, calls, anyReturned, notification, extracted>>

\* coordinator.py:111: asyncio.sleep(RETRY_DELAY), then the next attempt
SetupSleep ==
    /\ s_pc = "sleep"
    /\ s_pc' = "connect"
    /\ s_attempt' = s_attempt + 1
    /\ Trace("setup_sleep")
    /\ UNCHANGED <<data, connected, registered, pollVars, polls, escaped, tracing, others,
                   calls, anyReturned, notification, extracted>>

\* A refresh of the DataUpdateCoordinator (timer tick or refresh request)
\* awaits _async_update_data and stores what it returns.
Refresh ==
    /\ s_pc = "done"
    /\ pc = "idle"
    /\ polls < MaxPolls
    /\ polls' = polls + 1
    /\ StartUpdate("refresh")
    /\ Trace("refresh_started")
    /\ UNCHANGED <<data, connected, registered, s_pc, s_attempt, escaped, tracing, others,
                   notification, extracted>>

\* The transport loses its connection.
ConnectionLost ==
    /\ connected
    /\ pc # "merge"
    /\ connected' = FALSE
    /\ Trace("connection_lost")
    /\ UNCHANGED <<data, registered, s_pc, s_attempt, pollVars, polls, escaped, tracing, others,
                   calls, anyReturned, notification, extracted>>

---------------------------------------------------------------------------
(* The notification callbacks (coordinator.py:149-233).  The transport     *)
(* calls them from the event loop, between any two awaits of the poll.     *)

NotifIds == {"RX1", "ZZ9"}

OnlineFields == { NoFields, "online" :> "True", "online" :> "False" }

\* Payloads of the "endpoint" topic.
EndpointPayloads ==
    { Payload(k, ("device_id" :> idv) @@ st) :
        k \in {"obj", "dict"}, idv \in NotifIds, st \in OnlineFields }
    \cup { Payload("other", NoFields),
           Payload("obj", ("device_id" :> None) @@ ("device" :> "RX1")
                              @@ ("online" :> "False")),
           Payload("dict", ("device_id" :> None) @@ ("device" :> "RX1")
                               @@ ("online" :> "False")),
           Payload("obj", ("device" :> "RX1") @@ ("status" :> "online")),
           Payload("obj", ("device_id" :> "RAISES") @@ ("online" :> "True")),
           Payload("dict", ("device" :> "RX1") @@ ("online" :> None)),
           Payload("dict", ("aliasName" :> "RX1") @@ ("status" :> "offline")) }

HdmiFields ==
    { NoFields, "hdmi_in_active" :> "True",
      ("hdmi_in_active" :> "False") @@ ("hdmi_out_active" :> "True") }

\* Payloads of the "video" topic.
VideoPayloads ==
    { Payload(k, ("device_id" :> idv) @@ h) :
        k \in {"obj", "dict"}, idv \in NotifIds, h \in HdmiFields }
    \cup { Payload("other", NoFields),
           Payload("obj", ("device_id" :> "RAISES") @@ ("hdmi_in_active" :> "True")),
           Payload("obj", ("device" :> "RX1") @@ ("hdmi_in_active" :> None)
                              @@ ("hdmi_out_active" :> "False")),
           Payload("dict", ("aliasName" :> "RX1") @@ ("hdmi out active" :> "true")) }

\* Exception classes raised inside the try block of a callback by a
\* listener; all derive from Exception.
ExceptionClasses == {"KeyError", "AttributeError", "TypeError", "ValueError", "RuntimeError"}

\* Exception classes of a raising attribute that pass through the except
\* clauses of the extraction helpers (coordinator.py:247, 267, 284, 301).
PayloadExceptions == {"ValueError", "RuntimeError"}

\* A variant of Escapes without the second except clause.
Escapes_NoCatchAll(exc) == exc \notin {"KeyError", "AttributeError", "TypeError"}

\* coordinator.py:180-184, 225-229: whether an exception of class exc, raised
\* inside the try block of a callback, escapes the two except clauses
Escapes(exc) ==
    /\ exc \notin {"KeyError", "AttributeError", "TypeError"}
    /\ exc \notin ExceptionClasses

\* coordinator.py:157, 191: "not self.data or 'devices' not in self.data"
DataUnavailable == ~data.exists

\* The payload and the extracted device id are recorded.
TraceNotification(n, id) ==
    /\ notification' = IF tracing THEN n ELSE notification
    /\ extracted' = IF tracing THEN id ELSE extracted

\* async_set_updated_data(self.data) (coordinator.py:172, 221): self.data
\* keeps the same object and the listeners are called; a listener may raise.
Republish(tag) ==
    \E exc \in {None} \cup ExceptionClasses :
        IF exc # None
        THEN /\ Trace(tag \o "_publish_failed")
             /\ escaped' = Escapes(exc)
        ELSE /\ Trace(tag \o "_published")
             /\ escaped' = FALSE

\* A variant of EndpointApplies that does not test online_status.
EndpointApplies_IgnoresStatus(device_id, online_status) ==
    /\ device_id \notin {None, ""}
    /\ device_id \in DOMAIN data.devices

\* A variant of EndpointPatch that also clears hdmi_out_active.
EndpointPatch_ClearsHdmi(dev, online_status) ==
    [dev EXCEPT !.online = (online_status = "True"), !.hdmi_out_active = FALSE]

\* coordinator.py:167: "device_id and device_id in self.data['devices'] and
\* online_status is not None"
EndpointApplies(device_id, online_status) ==
    /\ device_id \notin {None, ""}
    /\ device_id \in DOMAIN data.devices
    /\ online_status # None

\* coordinator.py:168: device["online"] = online_status
EndpointPatch(dev, online_status) == [dev EXCEPT !.online = (online_status = "True")]

\* handle_endpoint_notification (coordinator.py:152-184)
handle_endpoint_notification(n) ==
    /\ registered
    /\ pc # "merge"
    /\ IF DataUnavailable
       THEN /\ Trace("endpoint_no_data")
            /\ TraceNotification(n, "n/a")
            /\ escaped' = FALSE
            /\ UNCHANGED data
       ELSE LET device_id == extract_device_id_from_notification(n)
                online_status == extract_online_status_from_notification(n)
            IN /\ TraceNotification(n, device_id)
               /\ IF device_id = Raise \/ online_status = Raise
                  THEN \E exc \in PayloadExceptions :
                       /\ Trace("endpoint_error")
                       /\ escaped' = Escapes(exc)
                       /\ UNCHANGED data
                  ELSE IF EndpointApplies(device_id, online_status)
                  THEN /\ data' = [data EXCEPT !.devices[device_id] =
                                      EndpointPatch(@, online_status)]
                       /\ Republish("endpoint")
                  ELSE /\ Trace("endpoint_dropped")
                       /\ escaped' = FALSE
                       /\ UNCHANGED data
    /\ UNCHANGED <<connected, registered, s_pc, s_attempt, pollVars, polls, tracing, others,
                   calls, anyReturned>>

\* A variant of VideoPatch that writes both fields whatever the payload carries.
VideoPatch_WritesBoth(dev, hdmi_in_active, hdmi_out_active) ==
    [dev EXCEPT !.hdmi_in_active = (hdmi_in_active = "True"),
                !.hdmi_out_active = (hdmi_out_active = "True")]

\* coordinator.py:204-211: the fields of device_data a video notification writes
VideoPatch(dev, hdmi_in_active, hdmi_out_active) ==
    [dev EXCEPT !.hdmi_in_active =
                    IF hdmi_in_active # None THEN hdmi_in_active = "True" ELSE @,
                !.hdmi_out_active =
                    IF hdmi_out_active # None THEN hdmi_out_active = "True" ELSE @]

\* handle_video_notification (coordinator.py:186-229)
handle_video_notification(n) ==
    /\ registered
    /\ pc # "merge"
    /\ IF DataUnavailable
       THEN /\ Trace("video_no_data")
            /\ TraceNotification(n, "n/a")
            /\ escaped' = FALSE
            /\ UNCHANGED data
       ELSE LET device_id == extract_device_id_from_notification(n)
                hdmi_in_active == extract_hdmi_in_status_from_notification(n)
                hdmi_out_active == extract_hdmi_out_status_from_notification(n)
            IN /\ TraceNotification(n, device_id)
               /\ IF device_id = Raise \/ hdmi_in_active = Raise \/ hdmi_out_active = Raise
                  THEN \E exc \in PayloadExceptions :
                       /\ Trace("video_error")
                       /\ escaped' = Escapes(exc)
                       /\ UNCHANGED data
                  ELSE IF device_id \notin {None, ""} /\ device_id \in DOMAIN data.devices
                  THEN /\ data' = [data EXCEPT !.devices[device_id] =
                                      VideoPatch(@, hdmi_in_active, hdmi_out_active)]
                       /\ IF hdmi_in_active # None \/ hdmi_out_active # None
                          THEN Republish("video")
                          ELSE /\ Trace("video_unchanged")
                               /\ escaped' = FALSE
                  ELSE /\ Trace("video_dropped")
                       /\ escaped' = FALSE
                       /\ UNCHANGED data
    /\ UNCHANGED <<connected, registered, s_pc, s_attempt, pollVars, polls, tracing, others,
                   calls, anyReturned>>

EndpointNotification == \E n \in EndpointPayloads : handle_endpoint_notification(n)

VideoNotification == \E n \in VideoPayloads : handle_video_notification(n)

Next ==
    \/ SetupConnect
    \/ SetupSleep
    \/ Refresh
    \/ QueryReturns
    \/ QueryRaises
    \/ attempt_reconnect
    \/ RetrySleep
    \/ ProcessResults
    \/ OuterSleep
    \/ ConnectionLost
    \/ EndpointNotification
    \/ VideoNotification

Spec == Init /\ [][Next]_vars

---------------------------------------------------------------------------
(* The poll routine on its own, with the history variables kept: the       *)
(* coordinator is set up, holds no snapshot yet (async_setup drops the     *)
(* data it fetches) and the transport delivers no notification.            *)

InitPoll ==
    /\ data = NoData
    /\ connected \in BOOLEAN
    /\ registered = TRUE
    /\ s_pc = "done"
    /\ s_attempt = 0
    /\ UpdateIdle
    /\ polls = 0
    /\ escaped = FALSE
    /\ tracing = TRUE
    /\ NoHistory
    /\ NoOperation

NextPoll ==
    \/ Refresh
    \/ QueryReturns
    \/ QueryRaises
    \/ attempt_reconnect
    \/ RetrySleep
    \/ ProcessResults
    \/ OuterSleep
    \/ ConnectionLost

SpecPoll == InitPoll /\ [][NextPoll]_vars

---------------------------------------------------------------------------
(* The notification callbacks on their own, with the history variables     *)
(* kept: no poll is running and self.data is anything a refresh can have   *)
(* stored.                                                                 *)

\* What a refresh can store in self.data.
PublishedSnapshots ==
    { ErrorSnapshot(1) }
    \cup { GoodSnapshot(1, MergedDevices(validate_device_json(j),
                                         validate_matrix_response(m),
                                         validate_device_status(s))) :
             <<j, m, s>> \in
               { t \in (JsonResponses \cup {DefaultJson})
                         \X (MatrixResponses \cup {DefaultMatrix})
                         \X (StatusResponses \cup {DefaultStatus}) :
                   AttemptOutcome(validate_device_json(t[1]),
                                  validate_matrix_response(t[2]),
                                  validate_device_status(t[3]), 0) = "return" } }

InitNotify ==
    /\ data \in {NoData} \cup PublishedSnapshots
    /\ connected \in BOOLEAN
    /\ registered = TRUE
    /\ s_pc = "done"
    /\ s_attempt = 0
    /\ UpdateIdle
    /\ polls = 1
    /\ escaped = FALSE
    /\ tracing = TRUE
    /\ NoHistory
    /\ NoOperation

NextNotify ==
    \/ EndpointNotification
    \/ VideoNotification

SpecNotify == InitNotify /\ [][NextNotify]_vars

---------------------------------------------------------------------------
(* async_setup on its own, with the history variables kept: the           *)
(* coordinator from its construction to the return or raise of            *)
(* async_setup, the polls it awaits included.                             *)

InitSetup ==
    /\ data = NoData
    /\ Constructed
    /\ s_attempt = 0
    /\ UpdateIdle
    /\ polls = 0
    /\ escaped = FALSE
    /\ tracing = TRUE
    /\ NoHistory
    /\ NoOperation

NextSetup ==
    \/ SetupConnect
    \/ SetupSleep
    \/ QueryReturns
    \/ QueryRaises
    \/ attempt_reconnect
    \/ RetrySleep
    \/ ProcessResults
    \/ OuterSleep
    \/ ConnectionLost

SpecSetup == InitSetup /\ [][NextSetup]_vars

---------------------------------------------------------------------------
(* async_shutdown (wyrestorm_networkhd/coordinator.py:123-147 and          *)
(* wyrestorm_networkhd_2/coordinator.py:113-126).  op is the running call: *)
(* its name, its arguments and where it stands; each action runs from one  *)
(* await to the next.                                                      *)

MaxShutdowns == 2

\* What the operations below leave alone.
rest ==
    <<data, registered, s_pc, s_attempt, pollVars, polls, escaped, tracing, history, entry,
      hass, cache>>

\* The calls es are appended to the record of calls.
LogAll(es) == events' = IF tracing THEN events \o es ELSE events

\* The call name(args) standing at pc.
Call(name, args, at) ==
    [name |-> name, pc |-> at, args |-> args, i |-> 0, successful_devices |-> << >>]

\* No call is running: none was made or the last one has returned or raised.
Returned == op.pc \in {"idle", "returned", "raised"}

\* A variant of TaskPending with the test of done() inverted.
TaskPending_OnlyIfDone == notification_task = "done"

\* coordinator.py:128: self._notification_task and not self._notification_task.done()
TaskPending == notification_task = "pending"

\* A variant of ShouldDisconnect that does not ask is_connected().
ShouldDisconnect_Always == TRUE

\* coordinator.py:139 (v2: 118): self.client and self.client.is_connected()
ShouldDisconnect == connected

\* coordinator.py:139-141 (v2: 118-120): disconnect() is called if the transport
\* is connected, else async_shutdown returns; before is what the step has
\* called already.
DisconnectIfConnected(args, before) ==
    IF ShouldDisconnect
    THEN /\ op' = Call("async_shutdown", args, "disconnect")
         /\ LogAll(before \o <<"disconnect">>)
    ELSE /\ op' = Call("async_shutdown", args, "returned")
         /\ LogAll(before)

\* coordinator.py:123-139 (v2: 113-118): async_shutdown of coordinator version v
\* is called and runs to its first await; v1 cancels a pending notification
\* task first.
ShutdownCalled(v) ==
    /\ Returned
    /\ op.name \in {"none", "async_shutdown"}
    /\ op.name = "async_shutdown" => op.args.version = v /\ op.args.nth < MaxShutdowns
    /\ LET args == [version |-> v,
                    nth |-> IF op.name = "none" THEN 1 ELSE op.args.nth + 1]
       IN IF v = 1 /\ TaskPending
          THEN /\ op' = Call("async_shutdown", args, "await_task")
               /\ LogAll(<<"shutdown", "cancel">>)
          ELSE DisconnectIfConnected(args, <<"shutdown">>)
    /\ UNCHANGED <<connected, notification_task, data2, rest>>

\* coordinator.py:131-136: the awaited task ends, with CancelledError, with
\* another exception or by returning; all three are passed over.
TaskAwaited ==
    /\ op.name = "async_shutdown"
    /\ op.pc = "await_task"
    /\ \E outcome \in {"CancelledError", "Exception", "returned"} :
         notification_task' = IF outcome = "CancelledError" THEN "cancelled" ELSE "done"
    /\ DisconnectIfConnected(op.args, <<"awaited">>)
    /\ UNCHANGED <<connected, data2, rest>>

\* coordinator.py:141 (v2: 120): the awaited disconnect() returns
DisconnectReturns ==
    /\ op.name = "async_shutdown"
    /\ op.pc = "disconnect"
    /\ connected' = FALSE
    /\ op' = [op EXCEPT !.pc = "returned"]
    /\ Log("disconnected")
    /\ UNCHANGED <<notification_task, data2, rest>>

\* coordinator.py:142-143 (v2: 123-124): the awaited disconnect() raises and the
\* exception is logged; whether the transport is still connected is up to
\* the client library.
DisconnectRaises ==
    /\ op.name = "async_shutdown"
    /\ op.pc = "disconnect"
    /\ connected' \in BOOLEAN
    /\ op' = [op EXCEPT !.pc = "returned"]
    /\ Log("disconnect_raised")
    /\ UNCHANGED <<notification_task, data2, rest>>

\* A coordinator of either version in any state shutdown can find it in:
\* connected or not, with no notification task, a pending or a finished one.
InitShutdown ==
    /\ data \in {NoData, ErrorSnapshot(1)}
    /\ connected \in BOOLEAN
    /\ registered \in BOOLEAN
    /\ s_pc \in {"connect", "done", "failed"}
    /\ s_attempt = 0
    /\ UpdateIdle
    /\ polls = 0
    /\ escaped = FALSE
    /\ tracing = TRUE
    /\ NoHistory
    /\ notification_task \in {None, "pending", "done"}
    /\ data2 = NoData2
    /\ op = Idle
    /\ events = << >>
    /\ entry = NoEntry
    /\ hass = NoHass
    /\ cache = NoCache

NextShutdown ==
    \/ \E v \in {1, 2} : ShutdownCalled(v)
    \/ TaskAwaited
    \/ DisconnectReturns
    \/ DisconnectRaises
    \/ ConnectionLost

SpecShutdown == InitShutdown /\ [][NextShutdown]_vars

---------------------------------------------------------------------------
(* The commands of the wyrestorm_networkhd_2 coordinator: set_matrix and   *)
(* set_power (wyrestorm_networkhd_2/coordinator.py:196-258) and the        *)
(* refresh they request (128-193).  The calls they make are recorded in    *)
(* events as tuples: <<"call", name>>, <<"matrix_set", src, target>>,      *)
(* <<"sinkpower", power, rx>>, <<"request_refresh">>, <<"query", name>>    *)
(* and <<"raise", exception, device>>.                                     *)

MaxCalls == 2

\* The CoordinatorData of a refresh: device_transmitters and
\* device_receivers map true names to alias names (_utils_coordinator.py:
\* build_device_collections keys both by true_name).
CoordinatorData(o, txs, rxs) ==
    [exists |-> TRUE, obj |-> o, transmitters |-> txs, receivers |-> rxs]

AllTransmitters == ("TX1" :> "Source1") @@ ("TX2" :> "Source2")
AllReceivers == ("RX1" :> "Display1") @@ ("RX2" :> "Display2")

\* The device collections a refresh can build.
Collections ==
    { <<AllTransmitters, AllReceivers>>,
      <<"TX1" :> "Source1", "RX1" :> "Display1">> }

\* coordinator.py:210: {tx.alias_name for tx in self.data.get_transmitters_list()}
valid_source_aliases == { data2.transmitters[t] : t \in DOMAIN data2.transmitters }

\* coordinator.py:211: {rx.alias_name for rx in self.data.get_receivers_list()}
valid_target_aliases == { data2.receivers[r] : r \in DOMAIN data2.receivers }

\* coordinator.py:244: set(self.data.device_receivers.keys())
valid_receivers == DOMAIN data2.receivers

\* The first name of names that is not in valid, None if all are.
FirstMissing(names, valid) ==
    LET missing == { k \in 1..Len(names) : names[k] \notin valid } IN
    IF missing = {} THEN None
    ELSE names[CHOOSE k \in missing : \A j \in missing : k <= j]

\* coordinator.py:209-219: the device set_matrix raises ValueError for, None
\* if it raises none; there is no validation while self.data is None.
MatrixValidationError(source, target) ==
    IF ~data2.exists THEN None
    ELSE IF FirstMissing(source, valid_source_aliases) # None
    THEN FirstMissing(source, valid_source_aliases)
    ELSE FirstMissing(target, valid_target_aliases)

\* coordinator.py:239-248: what set_power raises ValueError for, None if it
\* raises none: the power state, or the first device that is not a key of
\* device_receivers; there is no validation of devices while self.data is
\* None.
PowerValidationError(devices, power_state) ==
    IF power_state \notin {"on", "off"} THEN power_state
    ELSE IF ~data2.exists THEN None
    ELSE FirstMissing(devices, valid_receivers)

\* A variant of CommandAt that takes the list from its end.
CommandAt_Reversed(items, k) == items[Len(items) + 1 - k]

\* coordinator.py:222, 251: the item of the k-th iteration of `for x in items`
CommandAt(items, k) == items[k]

\* coordinator.py:223, 252-254: the transport call of the k-th iteration
TransportCall(name, args, k) ==
    IF name = "set_matrix"
    THEN <<"matrix_set", CommandAt(args.source, k), args.target>>
    ELSE <<"sinkpower", args.power_state, CommandAt(args.devices, k)>>

\* The list a command iterates over.
Items(name, args) == IF name = "set_matrix" THEN args.source ELSE args.devices

\* A variant of UpdateQueries with the matrix and status queries only.
UpdateQueries_Selective == <<"config_get_device_status", "matrix_get">>

\* coordinator.py:135-150: the queries of _async_update_data, in order
UpdateQueries ==
    <<"config_get_version", "config_get_ipsetting", "config_get_devicejsonstring",
      "config_get_device_status", "config_get_device_info", "matrix_get">>

\* A variant of RequestsRefresh in which only set_matrix asks for a refresh.
RequestsRefresh_OnlyMatrix(name) == name = "set_matrix"

\* coordinator.py:226, 257: both commands end with
\* await self.async_request_refresh()
RequestsRefresh(name) == name \in {"set_matrix", "set_power"}

\* The record of calls begins again with the calls es: events holds the
\* calls of one command.
LogAnew(es) == events' = IF tracing THEN es ELSE events

\* How many calls have been made.
Nth == IF op.name = "none" THEN 0 ELSE op.args.nth

\* A command is called with args and runs to its first await: it raises the
\* ValueError of its validation, or makes its first transport call.
CommandCalled(name, args, invalid) ==
    /\ Returned
    /\ Nth < MaxCalls
    /\ IF invalid # None
       THEN /\ op' = Call(name, args, "raised")
            /\ LogAnew(<< <<"call", name>>, <<"raise", "ValueError", invalid>> >>)
       ELSE /\ op' = [Call(name, args, "command") EXCEPT !.i = 1]
            /\ LogAnew(<< <<"call", name>>, TransportCall(name, args, 1) >>)
    /\ UNCHANGED <<connected, notification_task, data2, rest>>

\* coordinator.py:196-223: set_matrix(source, target)
SetMatrixCalled ==
    \E source \in { <<"Source1">>, <<"Nope">>, <<"Source2", "Source1">>,
                    <<"Source1", "Display1">> },
       target \in { <<"Display1">>, <<"Display1", "Display2">>, <<"Source1">> } :
        CommandCalled("set_matrix",
                      [source |-> source, target |-> target, nth |-> Nth + 1],
                      MatrixValidationError(source, target))

\* coordinator.py:229-254: set_power(devices, power_state)
SetPowerCalled ==
    \E devices \in { <<"RX1">>, <<"TX1">>, <<"Nope">>, <<"RX2", "RX1">>, <<"RX1", "Nope">> },
       power_state \in {"on", "off", "sideways"} :
        CommandCalled("set_power",
                      [devices |-> devices, power_state |-> power_state, nth |-> Nth + 1],
                      PowerValidationError(devices, power_state))

\* coordinator.py:222-226, 251-257: the awaited transport call returns; the
\* next one is made, or after the last one the refresh is requested, which
\* awaits the first query of _async_update_data.
CommandReturns ==
    /\ op.name \in {"set_matrix", "set_power"}
    /\ op.pc = "command"
    /\ IF op.i < Len(Items(op.name, op.args))
       THEN /\ op' = [op EXCEPT !.i = @ + 1]
            /\ Log(TransportCall(op.name, op.args, op.i + 1))
       ELSE IF RequestsRefresh(op.name)
       THEN /\ op' = [op EXCEPT !.pc = "refresh", !.i = 1]
            /\ LogAll(<< <<"request_refresh">>, <<"query", UpdateQueries[1]>> >>)
       ELSE /\ op' = [op EXCEPT !.pc = "returned"]
            /\ UNCHANGED events
    /\ UNCHANGED <<connected, notification_task, data2, rest>>

\* coordinator.py:223, 252: the awaited transport call raises, and the
\* exception leaves the command.
CommandRaises ==
    /\ op.name \in {"set_matrix", "set_power"}
    /\ op.pc = "command"
    /\ op' = [op EXCEPT !.pc = "raised"]
    /\ Log(<<"raise", "Exception", CommandAt(Items(op.name, op.args), op.i)>>)
    /\ UNCHANGED <<connected, notification_task, data2, rest>>

\* coordinator.py:135-189: a query of _async_update_data returns; the next
\* one is awaited, or after the last one the CoordinatorData is built and
\* the refresh stores it in self.data.
UpdateQueryReturns ==
    /\ op.name \in {"set_matrix", "set_power"}
    /\ op.pc = "refresh"
    /\ IF op.i < Len(UpdateQueries)
       THEN /\ op' = [op EXCEPT !.i = @ + 1]
            /\ Log(<<"query", UpdateQueries[op.i + 1]>>)
            /\ UNCHANGED data2
       ELSE /\ op' = [op EXCEPT !.pc = "returned"]
            /\ \E c \in Collections : data2' = CoordinatorData(data2.obj + 1, c[1], c[2])
            /\ UNCHANGED events
    /\ UNCHANGED <<connected, notification_task, rest>>

\* coordinator.py:191-193: a query raises, _async_update_data raises
\* UpdateFailed, and the refresh keeps self.data and logs the failure.
UpdateQueryRaises ==
    /\ op.name \in {"set_matrix", "set_power"}
    /\ op.pc = "refresh"
    /\ op' = [op EXCEPT !.pc = "returned"]
    /\ Log(<<"raise", "UpdateFailed", UpdateQueries[op.i]>>)
    /\ UNCHANGED <<connected, notification_task, data2, rest>>

\* A constructed v2 coordinator: without a snapshot, or with the one a
\* refresh has stored.
InitCommands ==
    /\ data = NoData
    /\ connected = TRUE
    /\ registered = FALSE
    /\ s_pc = "done"
    /\ s_attempt = 0
    /\ UpdateIdle
    /\ polls = 0
    /\ escaped = FALSE
    /\ tracing = TRUE
    /\ NoHistory
    /\ notification_task = None
    /\ data2 \in {NoData2} \cup { CoordinatorData(1, c[1], c[2]) : c \in Collections }
    /\ op = Idle
    /\ events = << >>
    /\ entry = NoEntry
    /\ hass = NoHass
    /\ cache = NoCache

NextCommands ==
    \/ SetMatrixCalled
    \/ SetPowerCalled
    \/ CommandReturns
    \/ CommandRaises
    \/ UpdateQueryReturns
    \/ UpdateQueryRaises

SpecCommands == InitCommands /\ [][NextCommands]_vars

---------------------------------------------------------------------------
(* The power_control service handler (wyrestorm_networkhd/__init__.py:     *)
(* 227-302) and the source select of a decoder (wyrestorm_networkhd/       *)
(* select.py:166-188), both of the v1 coordinator.  Their calls are        *)
(* recorded in events as for the commands above, with                      *)
(* <<"matrix_set_null", targets>> in addition.                             *)

\* A device JSON response with one encoder and three decoders.
FourDevices ==
    JsonList(<<TXon, RXon, JsonItem("RX2", "receiver", TRUE),
               JsonItem("RX3", "receiver", FALSE)>>)

\* The snapshots the services are called with: none, the error snapshot and
\* the one merged from FourDevices.
ServiceSnapshots ==
    { NoData, ErrorSnapshot(1),
      GoodSnapshot(1, MergedDevices(validate_device_json(FourDevices),
                                    validate_matrix_response(DefaultMatrix),
                                    validate_device_status(DefaultStatus))) }

\* coordinator.py:688-693, 727-733: the keys of the mapping a snapshot is
Keys(snap) ==
    IF ~snap.exists THEN {}
    ELSE {"devices", "matrix", "device_status", "last_update"}
             \cup (IF snap.error THEN {"error"} ELSE {})

\* bool(self.data): self.data is neither None nor an empty mapping
HasData == data.exists /\ Keys(data) # {}

\* coordinator.py:779-781: is_ready()
is_ready == data.exists /\ "devices" \in Keys(data)

\* A variant of has_errors without the test of self.data.
has_errors_OnlyErrorKey == "error" \in Keys(data)

\* coordinator.py:766-770: has_errors()
has_errors == IF ~HasData THEN TRUE ELSE "error" \in Keys(data)

\* coordinator.py:796-801: get_all_devices()
get_all_devices == IF is_ready THEN data.devices ELSE EmptyDevices

\* What a read operation returns: None, a value of the type named, or the
\* exception that leaves it.
Returns(type, value) == [type |-> type, value |-> value]

\* coordinator.py:727-733: the text of the error of the error snapshot
ErrorText == "All retry attempts failed"

\* coordinator.py:772-777: get_error_message(); None has no get()
get_error_message ==
    IF ~has_errors THEN Returns("None", None)
    ELSE IF ~data.exists THEN Returns("AttributeError", None)
    ELSE IF "error" \in Keys(data) THEN Returns("str", PyStr(ErrorText))
    ELSE Returns("None", None)

\* coordinator.py:783-787: get_device_count()
get_device_count == IF ~is_ready THEN 0 ELSE Cardinality(DOMAIN data.devices)

\* coordinator.py:789-794: get_device_info(device_id)
get_device_info(device_id) ==
    IF ~is_ready THEN Returns("None", None)
    ELSE IF device_id \in DOMAIN data.devices
    THEN Returns("dict", data.devices[device_id])
    ELSE Returns("None", None)

\* The first device of devices that is not in get_all_devices() or is not a
\* decoder, None if there is none (__init__.py:255-263).
FirstNotDecoder(devices) ==
    LET bad == { k \in 1..Len(devices) :
                   \/ devices[k] \notin DOMAIN get_all_devices
                   \/ get_all_devices[devices[k]].type # "decoder" }
    IN IF bad = {} THEN None
       ELSE devices[CHOOSE k \in bad : \A j \in bad : k <= j]

\* __init__.py:237-263: the exception handle_power_control raises before its
\* first command, None if it raises none
PowerControlError(devices, power_state) ==
    IF devices = << >> THEN <<"ValueError", "devices">>
    ELSE IF power_state \notin {"on", "off"} THEN <<"ValueError", power_state>>
    ELSE IF ~is_ready THEN <<"RuntimeError", "not ready">>
    ELSE IF FirstNotDecoder(devices) # None THEN <<"ValueError", FirstNotDecoder(devices)>>
    ELSE None

\* __init__.py:269-271: the sink-power command of the k-th device
SinkPower(args, k) == <<"sinkpower", args.power_state, args.devices[k]>>

\* __init__.py:229-271: handle_power_control is called and runs to its first
\* await.
PowerControlCalled ==
    \E devices \in { << >>, <<"RX1">>, <<"TX1">>, <<"RX1", "Nope">>,
                     <<"RX2", "RX1">>, <<"RX1", "RX2", "RX3">> },
       power_state \in {"on", "sideways"} :
        LET args == [devices |-> devices, power_state |-> power_state, nth |-> Nth + 1]
            error == PowerControlError(devices, power_state)
        IN /\ Returned
           /\ Nth < MaxCalls
           /\ IF error # None
              THEN /\ op' = Call("handle_power_control", args, "raised")
                   /\ LogAnew(<< <<"call", "handle_power_control">>,
                                 <<"raise", error[1], error[2]>> >>)
              ELSE /\ op' = [Call("handle_power_control", args, "command") EXCEPT !.i = 1]
                   /\ LogAnew(<< <<"call", "handle_power_control">>, SinkPower(args, 1) >>)
           /\ UNCHANGED <<connected, notification_task, data2, rest>>

\* __init__.py:267-279: the loop goes on after the command of device op.i:
\* the command of the next device is sent, or after the last device the
\* refresh is requested; before is what the step has recorded already.
NextDeviceOrRefresh(before) ==
    IF op.i < Len(op.args.devices)
    THEN /\ op' = [op EXCEPT !.i = @ + 1,
                             !.successful_devices =
                                 IF before = << >> THEN Append(@, op.args.devices[op.i])
                                 ELSE @]
         /\ LogAll(before \o << SinkPower(op.args, op.i + 1) >>)
    ELSE /\ op' = [op EXCEPT !.pc = "refresh",
                             !.successful_devices =
                                 IF before = << >> THEN Append(@, op.args.devices[op.i])
                                 ELSE @]
         /\ LogAll(before \o << <<"request_refresh">> >>)

\* __init__.py:269-272: the awaited sink-power command returns and the
\* device is appended to successful_devices.
PowerCommandReturns ==
    /\ op.name = "handle_power_control"
    /\ op.pc = "command"
    /\ NextDeviceOrRefresh(<< >>)
    /\ UNCHANGED <<connected, notification_task, data2, rest>>

\* A variant of ReRaises that gives up at any failure.
ReRaises_Always(successful_devices) == TRUE

\* __init__.py:276: if not successful_devices
ReRaises(successful_devices) == successful_devices = << >>

\* __init__.py:273-277, 294-302: the awaited sink-power command raises; the
\* handler raises if no device has succeeded, else it goes on.
PowerCommandRaises ==
    /\ op.name = "handle_power_control"
    /\ op.pc = "command"
    /\ LET failure == <<"raise", "Exception", op.args.devices[op.i]>> IN
       IF ReRaises(op.successful_devices)
       THEN /\ op' = [op EXCEPT !.pc = "raised"]
            /\ Log(failure)
       ELSE NextDeviceOrRefresh(<<failure>>)
    /\ UNCHANGED <<connected, notification_task, data2, rest>>

\* A variant of SelectCommand that has no branch for "None".
SelectCommand_NoNull(option, device_id) == <<"matrix_set", option, <<device_id>>>>

\* select.py:171-178: the transport command of async_select_option
SelectCommand(option, device_id) ==
    IF option = "None"
    THEN <<"matrix_set_null", <<device_id>>>>
    ELSE <<"matrix_set", option, <<device_id>>>>

\* select.py:166-178: async_select_option(option) of the select of decoder
\* device_id is called and awaits its command.
SelectOptionCalled ==
    \E option \in {"None", "TX1", "Nope"}, device_id \in {"RX1", "RX2"} :
        /\ Returned
        /\ Nth < MaxCalls
        /\ op' = [Call("async_select_option",
                       [option |-> option, device_id |-> device_id, nth |-> Nth + 1],
                       "command") EXCEPT !.i = 1]
        /\ LogAnew(<< <<"call", "async_select_option">>, SelectCommand(option, device_id) >>)
        /\ UNCHANGED <<connected, notification_task, data2, rest>>

\* select.py:173-181: the command returns and the refresh is requested
SelectCommandReturns ==
    /\ op.name = "async_select_option"
    /\ op.pc = "command"
    /\ op' = [op EXCEPT !.pc = "refresh"]
    /\ Log(<<"request_refresh">>)
    /\ UNCHANGED <<connected, notification_task, data2, rest>>

\* select.py:183-188: the command raises; the exception is logged and
\* raised again.
SelectCommandRaises ==
    /\ op.name = "async_select_option"
    /\ op.pc = "command"
    /\ op' = [op EXCEPT !.pc = "raised"]
    /\ Log(<<"raise", "Exception", op.args.device_id>>)
    /\ UNCHANGED <<connected, notification_task, data2, rest>>

\* __init__.py:279, select.py:181: the awaited async_request_refresh()
\* returns: the refresh has stored what _async_update_data returned, or has
\* been put off by the debouncer.
ServiceRefreshed ==
    /\ op.name \in {"handle_power_control", "async_select_option"}
    /\ op.pc = "refresh"
    /\ op' = [op EXCEPT !.pc = "returned"]
    /\ data' \in {data} \cup (ServiceSnapshots \ {NoData})
    /\ UNCHANGED <<connected, notification_task, data2, events, entry, hass, cache,
                   registered, s_pc, s_attempt, pollVars, polls, escaped, tracing, history>>

InitServices ==
    /\ data \in ServiceSnapshots
    /\ connected = TRUE
    /\ registered = TRUE
    /\ s_pc = "done"
    /\ s_attempt = 0
    /\ UpdateIdle
    /\ polls = 0
    /\ escaped = FALSE
    /\ tracing = TRUE
    /\ NoHistory
    /\ NoOperation

NextServices ==
    \/ PowerControlCalled
    \/ PowerCommandReturns
    \/ PowerCommandRaises
    \/ SelectOptionCalled
    \/ SelectCommandReturns
    \/ SelectCommandRaises
    \/ ServiceRefreshed

SpecServices == InitServices /\ [][NextServices]_vars

---------------------------------------------------------------------------
(* The merges on their own.  _async_update_data of the v1 coordinator      *)
(* (coordinator.py:514-733) merges the three query results it holds, and   *)
(* _async_update_data of the wyrestorm_networkhd_2 coordinator             *)
(* (coordinator.py:165-185) builds its CoordinatorData with the two        *)
(* functions of _utils_coordinator.py.  The value it returns is recorded   *)
(* in events as <<"return", [device_transmitters, device_receivers,        *)
(* matrix_assignments]>>.                                                  *)

\* The records of the wyrestorm_networkhd package, with one field for the
\* fields each of them contributes to a device.
DeviceJsonString(a, n, t) == [aliasName |-> a, trueName |-> n, deviceType |-> t]
DeviceStatus(n, r) == [name |-> n, stream_resolution |-> r]
DeviceInfo(n, m) == [name |-> n, mac |-> m]

\* _utils_coordinator.py:32, 35: the None that next(..., None) gives when no
\* record of the list has the name
NotFound == [name |-> None, stream_resolution |-> None, mac |-> None]

\* _utils_coordinator.py:32, 35: next((d for d in list if d.name == device_name), None)
FirstNamed(list, name) ==
    LET js == { j \in 1..Len(list) : list[j].name = name }
    IN IF js = {} THEN NotFound
       ELSE list[CHOOSE j \in js : \A k \in js : j <= k]

\* A variant of Complete that does not ask for the info record.
Complete_StatusOnly(status, info) == status # NotFound

\* _utils_coordinator.py:36: if device_status and device_info
Complete(status, info) == status # NotFound /\ info # NotFound

\* What the factory raises instead of returning a device.
FactoryErrors == {"ValueError", "AttributeError"}

\* device_receiver_transmitter.py:119-138, 143-190: the device of class c
Device(c, json, status, info) ==
    [class |-> c,
     alias_name |-> json.aliasName,
     true_name |-> json.trueName,
     device_type |-> json.deviceType,
     mac |-> info.mac,
     stream_resolution |-> status.stream_resolution]

\* A variant of create_device_from_wyrestorm_models that builds a receiver
\* for every type that is not a transmitter.
create_device_from_wyrestorm_models_Defaulting(json, status, info) ==
    IF json.deviceType # None /\ Lower(json.deviceType) = "transmitter"
    THEN Device("DeviceTransmitter", json, status, info)
    ELSE Device("DeviceReceiver", json, status, info)

\* device_receiver_transmitter.py:106-193: create_device_from_wyrestorm_models;
\* None has no lower(), an unknown type raises ValueError
create_device_from_wyrestorm_models(json, status, info) ==
    IF json.deviceType = None THEN [class |-> "AttributeError"]
    ELSE IF Lower(json.deviceType) = "receiver"
    THEN Device("DeviceReceiver", json, status, info)
    ELSE IF Lower(json.deviceType) = "transmitter"
    THEN Device("DeviceTransmitter", json, status, info)
    ELSE [class |-> "ValueError"]

\* No device in either collection.
NoCollections == [transmitters |-> << >>, receivers |-> << >>]

\* _utils_coordinator.py:29-52: one turn of the loop over device_json_list
AddDevice(acc, json, device_status_list, device_info_list) ==
    LET status == FirstNamed(device_status_list, json.trueName)
        info == FirstNamed(device_info_list, json.trueName)
        device == create_device_from_wyrestorm_models(json, status, info)
    IN IF ~Complete(status, info) THEN acc
       ELSE IF device.class \in FactoryErrors THEN acc
       ELSE IF device.device_type = "Transmitter"
       THEN [acc EXCEPT !.transmitters = (device.true_name :> device) @@ @]
       ELSE [acc EXCEPT !.receivers = (device.true_name :> device) @@ @]

\* _utils_coordinator.py:29: the loop over the first k records
RECURSIVE BuildFrom(_, _, _, _)
BuildFrom(device_json_list, device_status_list, device_info_list, k) ==
    IF k = 0 THEN NoCollections
    ELSE AddDevice(BuildFrom(device_json_list, device_status_list, device_info_list, k - 1),
                   device_json_list[k], device_status_list, device_info_list)

\* _utils_coordinator.py:19-60: build_device_collections
build_device_collections(device_json_list, device_status_list, device_info_list) ==
    BuildFrom(device_json_list, device_status_list, device_info_list, Len(device_json_list))

\* _utils_coordinator.py:76-81: the loop over the assignments, each stored
\* under its rx
RECURSIVE AssignInOrder(_, _)
AssignInOrder(matrix_assignments, as) ==
    IF as = << >> THEN matrix_assignments
    ELSE AssignInOrder((Head(as).rx :> Head(as).tx) @@ matrix_assignments, Tail(as))

\* The sequence s backwards.
Reversed(s) == [j \in 1..Len(s) |-> s[Len(s) + 1 - j]]

\* A variant of process_matrix_assignments that goes through the
\* assignments backwards.
process_matrix_assignments_Backwards(matrix_response) ==
    IF matrix_response.kind # "obj" THEN << >>
    ELSE AssignInOrder(<< >>, Reversed(matrix_response.assignments))

\* _utils_coordinator.py:63-86: process_matrix_assignments; an empty mapping
\* for None and for an object without assignments
process_matrix_assignments(matrix_response) ==
    IF matrix_response.kind # "obj" THEN << >>
    ELSE AssignInOrder(<< >>, matrix_response.assignments)

\* The device JSON responses the v1 merge is given; the last one has a
\* device whose deviceType names no role.
MergeJsonInputs ==
    { JsonList(<< >>), JsonList(<<TXon, RXon>>), FourDevices,
      JsonList(<<NullTypeItem, RXon>>),
      JsonList(<<JsonItem("CT1", "controller", TRUE), TXon, RXon>>) }

\* The matrix responses the merges are given: none, one without
\* assignments, and lists whose rx names a decoder, twice the same decoder,
\* an encoder and no device.
MergeMatrixInputs ==
    { MatrixNone, MatrixJunk, MatrixObj(<< >>),
      MatrixObj(<<Assignment("RX1", "TX1")>>),
      MatrixObj(<<Assignment("RX1", "TX1"), Assignment("RX2", "TX1"),
                  Assignment("RX1", "TX2")>>),
      MatrixObj(<<Assignment("TX1", "TX2")>>),
      MatrixObj(<<Assignment("ZZ9", "TX1")>>),
      MatrixObj(<<Assignment("RX1", "TX2"), Assignment("TX1", "TX1"),
                  Assignment("ZZ9", "TX1"), Assignment("RX1", "TX1")>>) }

\* The record lists build_device_collections is given: every letter case of
\* the two types, an unknown type and a missing one; status and info lists
\* that lack records, repeat a name or name no identity record.
BuildJsonInputs ==
    { << >>,
      <<DeviceJsonString("Display1", "RX1", "receiver"),
        DeviceJsonString("Source1", "TX1", "Transmitter")>>,
      <<DeviceJsonString("Display1", "RX1", "RECEIVER"),
        DeviceJsonString("Source1", "TX1", "TRANSMITTER")>>,
      <<DeviceJsonString("Display1", "RX1", "Receiver"),
        DeviceJsonString("Source1", "TX1", "transmitter")>>,
      <<DeviceJsonString("Display1", "RX1", "receiver"),
        DeviceJsonString("Wall", "CT1", "controller"),
        DeviceJsonString("Source1", "TX1", "Transmitter")>>,
      <<DeviceJsonString("Source1", "TX1", None),
        DeviceJsonString("Display1", "RX1", "receiver")>> }

BuildStatusInputs ==
    { << >>,
      <<DeviceStatus("RX1", "1080p")>>,
      <<DeviceStatus("RX1", "1080p"), DeviceStatus("TX1", "2160p"),
        DeviceStatus("CT1", "720p")>>,
      <<DeviceStatus("ZZ9", "720p"), DeviceStatus("TX1", "2160p"),
        DeviceStatus("RX1", "1080p"), DeviceStatus("RX1", "720p")>> }

BuildInfoInputs ==
    { << >>,
      <<DeviceInfo("TX1", "mac-tx1")>>,
      <<DeviceInfo("RX1", "mac-rx1"), DeviceInfo("TX1", "mac-tx1"),
        DeviceInfo("CT1", "mac-ct1"), DeviceInfo("ZZ9", "mac-zz9")>> }

\* wyrestorm_networkhd_2/coordinator.py:165-185: the device collections are
\* built, the matrix is processed and the CoordinatorData is returned to the
\* refresh, which stores it in self.data.
BuildData ==
    /\ op.name = "_async_update_data"
    /\ op.pc = "build"
    /\ LET built == build_device_collections(op.args.device_json_list,
                                             op.args.device_status_list,
                                             op.args.device_info_list)
           matrix_assignments == process_matrix_assignments(op.args.matrix)
           aliases(ds) == [n \in DOMAIN ds |-> ds[n].alias_name]
       IN /\ data2' = CoordinatorData(data2.obj + 1, aliases(built.transmitters),
                                      aliases(built.receivers))
          /\ Log(<<"return", [device_transmitters |-> built.transmitters,
                              device_receivers |-> built.receivers,
                              matrix_assignments |-> matrix_assignments]>>)
    /\ op' = [op EXCEPT !.pc = "returned"]
    /\ UNCHANGED <<connected, notification_task, rest>>

\* The v1 coordinator holds the results of the three queries of a refresh.
InitMergeV1 ==
    /\ pc = "merge"
    /\ caller = "refresh"
    /\ attempt \in 0..(RETRY_ATTEMPTS - 1)
    /\ stage = "status"
    /\ qattempt = 0
    /\ err = None
    /\ device_json \in MergeJsonInputs
    /\ matrix \in MergeMatrixInputs
    /\ device_status \in StatusResponses
    /\ polls = 1
    /\ NoOperation

\* The v2 coordinator holds the results of the queries of a refresh.
InitBuildV2 ==
    /\ UpdateIdle
    /\ polls = 0
    /\ notification_task = None
    /\ data2 = NoData2
    /\ \E j \in BuildJsonInputs, s \in BuildStatusInputs, i \in BuildInfoInputs,
          m \in MergeMatrixInputs :
          op = Call("_async_update_data",
                    [device_json_list |-> j, device_status_list |-> s,
                     device_info_list |-> i, matrix |-> m],
                    "build")
    /\ events = << >>
    /\ entry = NoEntry
    /\ hass = NoHass
    /\ cache = NoCache

InitMerge ==
    /\ data = NoData
    /\ connected = TRUE
    /\ registered = TRUE
    /\ s_pc = "done"
    /\ s_attempt = 0
    /\ escaped = FALSE
    /\ tracing = TRUE
    /\ NoHistory
    /\ InitMergeV1 \/ InitBuildV2

NextMerge ==
    \/ ProcessResults
    \/ BuildData

SpecMerge == InitMerge /\ [][NextMerge]_vars

---------------------------------------------------------------------------
(* Properties of the poll routine, over SpecPoll.                          *)

\* A refresh returns: the step from the merge to the idle state.
RefreshReturns == pc = "merge" /\ caller = "refresh" /\ pc' = "idle"

IdentityNames ==
    IF device_json.list
    THEN {device_json.items[i].aliasName : i \in DOMAIN device_json.items} \ Falsy
    ELSE {}

\* The devices it names: "unknown" is the routine's placeholder for a
\* missing name and names no device.
IdentityIds == IdentityNames \ {"unknown"}

\* The aliasname values of the status response of the running attempt.
StatusRecordIds ==
    IF device_status.kind = "dict"
    THEN {device_status.items[i].aliasname : i \in DOMAIN device_status.items} \ Falsy
    ELSE {}

\* The status fields of device entry d are at their defaults.
StatusDefaults(d) ==
    /\ d.power_state = "unknown"
    /\ d.hdmi_in_active = FALSE
    /\ d.hdmi_out_active = FALSE
    /\ d.resolution = None

\* The stored snapshot has no error and holds every device of the identity
\* response, those without a status record with default status fields.
BestEffortSnapshot ==
    /\ data'.exists
    /\ ~data'.error
    /\ \A id \in IdentityIds :
          /\ id \in DOMAIN data'.devices
          /\ id \notin StatusRecordIds => StatusDefaults(data'.devices[id])

SomeResultValid ==
    \/ IdentityNames # {}
    \/ matrix.kind = "obj"
    \/ device_status.kind = "dict"

\* No named identity record has a null deviceType.
NoNullDeviceType ==
    \A i \in DOMAIN device_json.items :
        device_json.items[i].aliasName \notin Falsy
            => device_json.items[i].deviceType # None

C9_AtMostRetryAttempts ==
    \A q \in Queries : calls[q] <= RETRY_ATTEMPTS

\* C9 (amended): during one execution of the poll routine each query is
\* invoked at most RETRY_ATTEMPTS times in each attempt of the outer loop,
\* so at most RETRY_ATTEMPTS * RETRY_ATTEMPTS times in the execution.
C9_AtMostRetryAttemptsPerRound ==
    \A q \in Queries :
        /\ calls[q] <= RETRY_ATTEMPTS * RETRY_ATTEMPTS
        /\ pc # "idle" => calls[q] <= (attempt + 1) * RETRY_ATTEMPTS

\* An execution has ended in which every query was invoked
\* RETRY_ATTEMPTS * RETRY_ATTEMPTS times.
C9_Witness ==
    /\ pc = "idle"
    /\ polls = 1
    /\ \A q \in Queries : calls[q] = RETRY_ATTEMPTS * RETRY_ATTEMPTS

\* The error texts that contain "Not connected" or, ignoring case,
\* "connection".
ConnectionShaped == {"Not connected", "Connection reset"}

\* C10: a failed attempt of a query that is not the last of its loop is
\* followed by a reconnect if the error text is connection-shaped and
\* directly by the delay otherwise; the failure of the last attempt of a loop
\* is followed by no reconnect; the reconnect calls connect() exactly when
\* the transport is not connected, and whatever its outcome the delay and
\* the next attempt of the same query follow.
C10_ReconnectBeforeRetry ==
    [][ /\ (pc = "query" /\ last' = "query_failed")
            => /\ qattempt < RETRY_ATTEMPTS - 1
               /\ pc' = IF err' \in ConnectionShaped THEN "reconnect" ELSE "sleep"
               /\ stage' = stage /\ qattempt' = qattempt /\ attempt' = attempt
        /\ (pc = "query" /\ last' = "query_exhausted")
            => /\ qattempt = RETRY_ATTEMPTS - 1
               /\ pc' \in {"query", "merge"}
        /\ (pc = "reconnect" /\ pc' # "reconnect")
            => /\ err \in ConnectionShaped
               /\ pc' = "sleep"
               /\ last' \in (IF connected THEN {"reconnect_skipped"}
                             ELSE {"reconnect_connected", "reconnect_failed"})
               /\ stage' = stage /\ qattempt' = qattempt /\ attempt' = attempt
        /\ (pc = "sleep" /\ pc' # "sleep")
            => /\ pc' = "query"
               /\ stage' = stage /\ qattempt' = qattempt + 1 /\ attempt' = attempt
      ]_vars

\* A reconnect has failed and the poll is at the delay before the next
\* attempt of the same query.
C10_Witness ==
    /\ last = "reconnect_failed"
    /\ pc = "sleep"
    /\ err = "Connection reset"
    /\ ~connected
    /\ qattempt < RETRY_ATTEMPTS - 1

---------------------------------------------------------------------------
(* Properties of the notification callbacks, over SpecNotify.              *)

EndpointTags ==
    {"endpoint_no_data", "endpoint_error", "endpoint_dropped",
     "endpoint_published", "endpoint_publish_failed"}

VideoTags ==
    {"video_no_data", "video_error", "video_dropped", "video_unchanged",
     "video_published", "video_publish_failed"}

RepublishTags ==
    {"endpoint_published", "endpoint_publish_failed",
     "video_published", "video_publish_failed"}

\* The step handles a notification that the handler resolves to a device of
\* the current snapshot.
ForKnownDevice == data.exists /\ extracted' \in DOMAIN data.devices

\* Nothing but the device entry of the notification's device changes, and
\* the snapshot stays the same object.
OnlyDeviceChanges ==
    /\ data'.exists
    /\ data'.obj = data.obj
    /\ data'.error = data.error
    /\ DOMAIN data'.devices = DOMAIN data.devices
    /\ \A d \in DOMAIN data.devices : d # extracted' => data'.devices[d] = data.devices[d]

\* The step issues no query, starts no poll and leaves the transport alone.
NoTransportActivity ==
    /\ calls' = calls
    /\ connected' = connected
    /\ polls' = polls
    /\ UNCHANGED pollVars

\* C4: handling an endpoint notification for a device D of the current
\* snapshot changes at most D's online field (to the status the payload
\* carries, if any), keeps the snapshot object, and issues no query.
C4_EndpointChangesOnlyOnline ==
    [][(last' \in EndpointTags /\ ForKnownDevice)
          => LET D == extracted'
                 online_status == extract_online_status_from_notification(notification')
             IN /\ OnlyDeviceChanges
                /\ data'.devices[D] =
                       [data.devices[D] EXCEPT !.online = data'.devices[D].online]
                /\ online_status \in {"True", "False"}
                       => data'.devices[D].online = (online_status = "True")
                /\ NoTransportActivity]_vars

\* An endpoint notification has set RX1 offline in a snapshot that also
\* holds TX1, and RX1 keeps its source and its HDMI output state.
C4_Witness ==
    /\ last = "endpoint_published"
    /\ extracted = "RX1"
    /\ DOMAIN data.devices = {"TX1", "RX1"}
    /\ data.devices["RX1"].online = FALSE
    /\ data.devices["RX1"].hdmi_out_active = TRUE
    /\ data.devices["RX1"].current_source = "TX1"
    /\ data.devices["TX1"].online = TRUE

\* The payload carries no status value its handler recognises.
NoRecognisableStatus ==
    IF last' \in EndpointTags
    THEN extract_online_status_from_notification(notification') = None
    ELSE /\ extract_hdmi_in_status_from_notification(notification') = None
         /\ extract_hdmi_out_status_from_notification(notification') = None

\* C5: a notification that arrives when no snapshot exists, or that names
\* no device of the current snapshot, or that carries no recognisable status
\* value, changes nothing and triggers no republish.
C5_DroppedNotificationIsNoOp ==
    [][(/\ last' \in EndpointTags \cup VideoTags
        /\ \/ ~data.exists
           \/ extracted' \notin DOMAIN data.devices
           \/ NoRecognisableStatus)
          => /\ data' = data
             /\ last' \notin RepublishTags
             /\ NoTransportActivity]_vars

\* An endpoint notification for RX1, a device of the snapshot, that carries
\* no status value has been dropped.
C5_Witness ==
    /\ last = "endpoint_dropped"
    /\ extracted = "RX1"
    /\ "RX1" \in DOMAIN data.devices
    /\ extract_online_status_from_notification(notification) = None

\* C6: no notification callback lets an exception escape.
C6_NoExceptionEscapes == escaped = FALSE

\* The listeners raised while a video notification was being republished,
\* and the callback returned normally.
C6_Witness ==
    /\ last = "video_publish_failed"
    /\ escaped = FALSE

\* C7: handling a video notification for a device D of the current snapshot
\* writes exactly those of D's hdmi_in_active and hdmi_out_active for which
\* the payload carries a value, changes nothing else, and republishes if and
\* only if one of the two was written.
C7_VideoWritesCarriedFields ==
    [][(last' \in VideoTags /\ ForKnownDevice)
          => LET D == extracted'
                 hin == extract_hdmi_in_status_from_notification(notification')
                 hout == extract_hdmi_out_status_from_notification(notification')
             IN /\ OnlyDeviceChanges
                /\ data'.devices[D] =
                       [data.devices[D] EXCEPT
                           !.hdmi_in_active = IF hin = None THEN @ ELSE hin = "True",
                           !.hdmi_out_active = IF hout = None THEN @ ELSE hout = "True"]
                /\ last' \in RepublishTags <=> (hin # None \/ hout # None)
                /\ NoTransportActivity]_vars

\* A video notification that carries only hdmi_in_active has set it on RX1
\* and left RX1's hdmi_out_active set.
C7_Witness ==
    /\ last = "video_published"
    /\ extracted = "RX1"
    /\ extract_hdmi_in_status_from_notification(notification) = "True"
    /\ extract_hdmi_out_status_from_notification(notification) = None
    /\ data.devices["RX1"].hdmi_in_active = TRUE
    /\ data.devices["RX1"].hdmi_out_active = TRUE

\* The candidates of the device id of payload n, in the order the claim
\* gives: the attributes device_id and device, then the keys device_id,
\* device and aliasName.
Candidates(n) ==
    IF n.kind = "obj" THEN <<"device_id", "device">>
    ELSE IF n.kind = "dict" THEN <<"device_id", "device", "aliasName">>
    ELSE << >>

\* The candidates of n that are present and not null.
NonNullCandidates(n) ==
    SelectSeq(Candidates(n), LAMBDA c : c \in DOMAIN n.f /\ n.f[c] # None)

\* The first non-null candidate value of n, None if there is none.
FirstNonNull(n) ==
    IF NonNullCandidates(n) = << >> THEN None ELSE PyStr(n.f[Head(NonNullCandidates(n))])

\* C8: the device id extracted from a notification is its first non-null
\* candidate value, and None only when every candidate is absent or null.
C8_FirstNonNullCandidate ==
    (extracted \notin {"n/a", Raise}) => extracted = FirstNonNull(notification)

---------------------------------------------------------------------------
(* Properties of the whole coordinator, over Spec.                         *)

\* The step stores the complete result of the poll that ends with it: the
\* error snapshot, or the merge of the three responses of its last attempt.
StoresCompleteSnapshot ==
    /\ RefreshReturns
    /\ data'.exists
    /\ data'.obj = polls
    /\ data.obj # polls
    /\ IF data'.error
       THEN data'.devices = EmptyDevices
       ELSE data'.devices = MergedDevices(validate_device_json(device_json),
                                          validate_matrix_response(matrix),
                                          validate_device_status(device_status))

\* The step writes notification fields of one device of the snapshot in
\* place, while no poll is between its merge and its return.
PatchesInPlace ==
    /\ pc # "merge"
    /\ UNCHANGED pollVars
    /\ data.exists
    /\ data'.exists
    /\ data'.obj = data.obj
    /\ data'.error = data.error
    /\ DOMAIN data'.devices = DOMAIN data.devices
    /\ \E D \in DOMAIN data.devices :
          /\ \A d \in DOMAIN data.devices : d # D => data'.devices[d] = data.devices[d]
          /\ data'.devices[D] =
                 [data.devices[D] EXCEPT
                     !.online = data'.devices[D].online,
                     !.hdmi_in_active = data'.devices[D].hdmi_in_active,
                     !.hdmi_out_active = data'.devices[D].hdmi_out_active]

\* C3: the snapshot readers see changes only by a notification patch of the
\* snapshot in place or, when a poll returns, by being replaced as a whole
\* with the complete result of that poll; while a poll is in flight readers
\* see the previous snapshot.
C3_SnapshotReplacedAtomically ==
    [][data' # data => (StoresCompleteSnapshot \/ PatchesInPlace)]_vars

\* The second refresh is suspended at its status query, with its identity
\* response already received, and readers see the devices of the first.
C3_Witness ==
    /\ pc = "query"
    /\ stage = "status"
    /\ polls = 2
    /\ device_json = JsonList(<<TXon, RXoff>>)
    /\ data.exists
    /\ data.obj = 1
    /\ DOMAIN data.devices = {"TX1", "RX1"}
    /\ data.devices["RX1"].online = TRUE

---------------------------------------------------------------------------
\* Every connect() async_setup has awaited so far raised.
AllConnectsFailed == \A k \in 1..Len(events) : events[k] = "connect_failed"

---------------------------------------------------------------------------
(* Properties of async_shutdown, over SpecShutdown.                        *)

\* The positions of events at which a call of async_shutdown begins.
ShutdownStarts == { k \in 1..Len(events) : events[k] = "shutdown" }

\* The position at which the call running at position k began.
StartOf(k) == CHOOSE b \in ShutdownStarts :
                /\ b <= k
                /\ \A c \in ShutdownStarts : c <= k => c <= b

\* What the call that began at position b has called up to position k.
CalledBetween(b, k) == { events[j] : j \in b..k }

\* C12: async_shutdown of the v1 coordinator calls disconnect() only when
\* the notification task is not pending, and in a call that cancelled the
\* task only after the await of the cancelled task has ended; while
\* disconnect() is awaited the task is not pending.
C12_DisconnectAfterTaskAwaited ==
    (op.name = "async_shutdown" /\ op.args.version = 1) =>
        /\ op.pc = "disconnect" => ~TaskPending
        /\ op.pc = "await_task" => events[Len(events)] = "cancel"
        /\ \A k \in 1..Len(events) :
             events[k] = "disconnect" =>
               LET called == CalledBetween(StartOf(k), k) IN
               /\ "cancel" \in called => "awaited" \in called
               /\ "cancel" \notin called =>
                     (k = Len(events) /\ op.pc = "disconnect" => ~TaskPending)

\* The v1 async_shutdown is awaiting disconnect() after it has cancelled
\* the pending notification task and awaited it.
C12_Witness ==
    /\ op.name = "async_shutdown"
    /\ op.args.version = 1
    /\ op.pc = "disconnect"
    /\ events = <<"shutdown", "cancel", "awaited", "disconnect">>
    /\ notification_task = "cancelled"

\* C13 (as stated): async_shutdown never raises, and a second
\* async_shutdown after a completed one calls disconnect() no further time.
C13_SecondShutdownNeverDisconnects ==
    /\ op.name = "async_shutdown" => op.pc # "raised"
    /\ \A k \in 1..Len(events) :
         events[k] = "disconnect" => StartOf(k) = 1

\* A call of async_shutdown after a completed one begins.
ShutdownRepeated ==
    /\ op'.name = "async_shutdown"
    /\ op'.args.nth >= 2
    /\ Len(events') > Len(events)
    /\ events'[Len(events) + 1] = "shutdown"

\* C13 (amended): async_shutdown never raises; a second async_shutdown
\* after a completed one cancels nothing, and calls disconnect() again only
\* if the transport is still connected, which is the case only after a
\* disconnect() that raised; if the transport is not connected the second
\* call returns at once and leaves the transport, the task and the
\* snapshots as they were.
C13_ShutdownTotalAndRepeatable ==
    [][/\ op'.name = "async_shutdown" => op'.pc # "raised"
       /\ ShutdownRepeated =>
            LET called == { events'[j] : j \in (Len(events) + 1)..Len(events') }
                before == CalledBetween(StartOf(Len(events)), Len(events))
            IN /\ "cancel" \notin called
               /\ op'.args.version = 1 => ~TaskPending
               /\ "disconnect" \in called <=> connected
               /\ connected => "disconnect_raised" \in before
               /\ ~connected =>
                    /\ op'.pc = "returned"
                    /\ UNCHANGED <<connected, notification_task, data, data2>>
      ]_vars

\* A second async_shutdown has returned without calling anything, after a
\* first one that cancelled the task and disconnected.
C13_Witness ==
    /\ op.name = "async_shutdown"
    /\ op.args.nth = 2
    /\ op.pc = "returned"
    /\ events = <<"shutdown", "cancel", "awaited", "disconnect", "disconnected", "shutdown">>

---------------------------------------------------------------------------
(* Properties of the commands, over SpecCommands.                          *)

\* The calls a step adds to events.
NewEvents ==
    IF Nth' # Nth THEN events'
    ELSE SubSeq(events', Len(events) + 1, Len(events'))

\* The members of a list.
Members(items) == { items[k] : k \in 1..Len(items) }

\* The kinds of the calls recorded.
Kinds(es) == { es[k][1] : k \in 1..Len(es) }

\* The step is the call of the command name.
Calls(name) == Nth' # Nth /\ op'.name = name

\* source is not a transmitter of the current snapshot or a target not a
\* receiver of it (no device is, while there is no snapshot).
UnknownToMatrix(args) ==
    \/ ~data2.exists
    \/ Members(args.source) \ valid_source_aliases # {}
    \/ Members(args.target) \ valid_target_aliases # {}

\* C14 (as stated): set_matrix issues no matrix_set that names a source
\* which is not a transmitter of the current snapshot or a target which is
\* not a receiver of it; called with such a name it raises a validation
\* error naming a missing device before any command, also while there is
\* no snapshot.
C14_NoCommandForUnknownDevice ==
    [][/\ \A k \in 1..Len(NewEvents) :
            NewEvents[k][1] = "matrix_set" =>
              /\ data2.exists
              /\ NewEvents[k][2] \in valid_source_aliases
              /\ Members(NewEvents[k][3]) \subseteq valid_target_aliases
       /\ (Calls("set_matrix") /\ UnknownToMatrix(op'.args)) =>
            /\ op'.pc = "raised"
            /\ events'[2][1] = "raise"
            /\ events'[2][2] = "ValueError"
            /\ events'[2][3] \in (Members(op'.args.source) \ valid_source_aliases)
                                 \cup (Members(op'.args.target) \ valid_target_aliases)
      ]_vars

\* The power state is not "on" or "off", or a device is not a receiver of
\* the current snapshot (none is, while there is no snapshot).
InvalidForPower(args) ==
    \/ args.power_state \notin {"on", "off"}
    \/ ~data2.exists
    \/ Members(args.devices) \ valid_receivers # {}

\* C15 (as stated): set_power with a state other than "on" or "off", or
\* with a device that is not a receiver of the current snapshot, raises a
\* validation error and calls the sink-power command for no device, in
\* every coordinator state.
C15_InvalidPowerRaises ==
    [][(Calls("set_power") /\ InvalidForPower(op'.args)) =>
            /\ op'.pc = "raised"
            /\ "sinkpower" \notin Kinds(events')
      ]_vars

\* The matrix_set calls recorded, in order.
IsMatrixSet(e) == e[1] = "matrix_set"
MatrixSets == SelectSeq(events, IsMatrixSet)

\* The positions of events that hold a call of kind.
Positions(kind) == { k \in 1..Len(events) : events[k][1] = kind }

\* C16: within one set_matrix call the k-th transport command is
\* matrix_set(source[k], target); one command is awaited at a time and the
\* next is sent when it has returned; the refresh is requested once, after
\* the command of the last source has returned; when a command raises,
\* set_matrix raises with no later command and no refresh.
C16_CommandsInOrderThenRefresh ==
    op.name = "set_matrix" =>
        LET source == op.args.source
            sent == Len(MatrixSets)
        IN /\ sent <= Len(source)
           /\ \A k \in 1..sent :
                MatrixSets[k] = <<"matrix_set", source[k], op.args.target>>
           /\ op.pc = "command" =>
                /\ sent = op.i
                /\ events[Len(events)] = MatrixSets[sent]
                /\ Positions("request_refresh") = {}
           /\ Positions("request_refresh") # {} =>
                /\ Cardinality(Positions("request_refresh")) = 1
                /\ sent = Len(source)
                /\ \A r \in Positions("request_refresh"), c \in Positions("matrix_set") :
                     c < r
           /\ op.pc \in {"refresh", "returned"} => Positions("request_refresh") # {}
           /\ op.pc = "raised" =>
                /\ Positions("request_refresh") = {}
                /\ events[Len(events)][1] = "raise"
                /\ sent > 0 => /\ events[Len(events)][3] = source[sent]
                               /\ events[Len(events) - 1] = MatrixSets[sent]

\* set_matrix with two sources has sent both commands and requested the
\* refresh.
C16_Witness ==
    /\ op.name = "set_matrix"
    /\ op.pc = "refresh"
    /\ Len(op.args.source) = 2
    /\ Len(MatrixSets) = 2
    /\ events[4][1] = "request_refresh"

\* The names of the queries recorded, in order.
IsQuery(e) == e[1] = "query"
QueriesInvoked == [k \in 1..Len(SelectSeq(events, IsQuery)) |->
                     SelectSeq(events, IsQuery)[k][2]]

C18_SetPowerRequestsNoRefresh ==
    op.name = "set_power" =>
        /\ Positions("request_refresh") = {}
        /\ Positions("query") = {}

\* C18 (amended): set_power requests exactly one refresh, after the
\* sink-power command of its last device has returned; the refresh invokes
\* the queries and set_power returns only after it; set_power requests none
\* when it raises.
C18_SetPowerRequestsOneRefresh ==
    op.name = "set_power" =>
        /\ op.pc \in {"refresh", "returned"} <=> Cardinality(Positions("request_refresh")) = 1
        /\ op.pc \in {"command", "raised"} <=> Positions("request_refresh") = {}
        /\ \A r \in Positions("request_refresh") :
             /\ Cardinality(Positions("sinkpower")) = Len(op.args.devices)
             /\ \A c \in Positions("sinkpower") : c < r
             /\ r < Len(events)
             /\ events[r + 1] = <<"query", "config_get_version">>
        /\ Positions("request_refresh") = {} => Positions("query") = {}

\* set_power of two receivers has returned after its refresh stored a
\* snapshot.
C18_Witness ==
    /\ op.name = "set_power"
    /\ op.pc = "returned"
    /\ Len(op.args.devices) = 2
    /\ Positions("request_refresh") = {4}
    /\ data2.obj > 1

---------------------------------------------------------------------------
(* Properties of the v1 services, over SpecServices.                       *)

\* The sink-power commands recorded, in order.
IsSinkPower(e) == e[1] = "sinkpower"
SinkPowers == SelectSeq(events, IsSinkPower)

\* C19: handle_power_control sends the sink-power commands in the order of
\* the batch; when the command of the first device raises, the handler
\* raises, with no further command and no refresh; when a command raises
\* after a device has succeeded, the handler goes on: it sends the command
\* of every remaining device, requests the refresh once and returns; the
\* handler raises after a command only for the first device.
C19_ContinuesUnlessFirstFails ==
    op.name = "handle_power_control" =>
        LET devices == op.args.devices
            sent == Len(SinkPowers)
            failures == { k \in Positions("raise") : events[k][2] = "Exception" }
        IN /\ sent <= Len(devices)
           /\ \A k \in 1..sent :
                SinkPowers[k] = <<"sinkpower", op.args.power_state, devices[k]>>
           /\ op.pc = "command" =>
                /\ sent = op.i
                /\ events[Len(events)] = SinkPowers[sent]
           /\ 3 \in failures =>
                /\ op.pc = "raised"
                /\ sent = 1
                /\ Len(events) = 3
           /\ (op.pc = "raised" /\ sent > 0) => failures = {3}
           /\ 3 \notin failures =>
                /\ op.pc # "raised" \/ sent = 0
                /\ op.pc \in {"refresh", "returned"} <=> Positions("request_refresh") # {}
                /\ Positions("request_refresh") # {} =>
                     /\ sent = Len(devices)
                     /\ Positions("request_refresh") = {Len(events)}
                     /\ Len(op.successful_devices) + Cardinality(failures) = Len(devices)
           /\ Len(op.successful_devices) > 0 => op.successful_devices[1] = devices[1]

\* The handler has returned after the command of the second of three
\* devices raised: the third was sent its command.
C19_Witness ==
    /\ op.name = "handle_power_control"
    /\ op.pc = "returned"
    /\ op.args.devices = <<"RX1", "RX2", "RX3">>
    /\ op.successful_devices = <<"RX1", "RX3">>
    /\ Len(SinkPowers) = 3

\* C20: async_select_option("None") issues one matrix_set_null([decoder])
\* and no matrix_set; with any other option it issues one
\* matrix_set(option, [decoder]) and no matrix_set_null; one refresh is
\* requested when the command has returned, and none when it raises.
C20_SelectIssuesOneCommand ==
    op.name = "async_select_option" =>
        LET option == op.args.option
            decoder == op.args.device_id
        IN /\ Cardinality(Positions("matrix_set_null")) = IF option = "None" THEN 1 ELSE 0
           /\ Cardinality(Positions("matrix_set")) = IF option = "None" THEN 0 ELSE 1
           /\ option = "None" => events[2] = <<"matrix_set_null", <<decoder>>>>
           /\ option # "None" => events[2] = <<"matrix_set", option, <<decoder>>>>
           /\ op.pc = "command" => Len(events) = 2
           /\ op.pc \in {"refresh", "returned"} =>
                /\ Len(events) = 3
                /\ events[3] = <<"request_refresh">>
           /\ op.pc = "raised" =>
                /\ Len(events) = 3
                /\ events[3][1] = "raise"

\* The select of RX1 was set to "None": matrix_set_null(["RX1"]) was sent,
\* the refresh requested, and the call has returned.
C20_Witness ==
    /\ op.name = "async_select_option"
    /\ op.args.option = "None"
    /\ op.pc = "returned"
    /\ events = << <<"call", "async_select_option">>, <<"matrix_set_null", <<"RX1">>>>,
                   <<"request_refresh">> >>

---------------------------------------------------------------------------
(* Properties of the merges, over SpecMerge.                               *)

\* The refresh of the v1 coordinator stores the snapshot merged from the
\* results it holds.
MergeStored == pc = "merge" /\ pc' = "idle" /\ ~data'.error

\* The assignments of the validated matrix response.
ValidAssignments == validate_matrix_response(matrix).assignments

\* The positions of the assignments whose rx is d.
AssignedTo(d) == { j \in 1..Len(ValidAssignments) : ValidAssignments[j].rx = d }

\* The tx of the last assignment whose rx is d.
LastSource(d) ==
    ValidAssignments[CHOOSE j \in AssignedTo(d) : \A k \in AssignedTo(d) : k <= j].tx

\* C21: after a v1 poll only a decoder of the merged collection has a
\* current_source taken from the matrix, the tx of an assignment whose rx
\* names it; every other device, and a decoder that no assignment names,
\* has current_source None.
C21_CurrentSourceOnlyForReceivers ==
    [][MergeStored =>
        \A d \in DOMAIN data'.devices :
            IF data'.devices[d].type = "decoder" /\ AssignedTo(d) # {}
            THEN data'.devices[d].current_source \in
                     { ValidAssignments[j].tx : j \in AssignedTo(d) }
            ELSE data'.devices[d].current_source = None]_vars

\* C22: in every snapshot without error that a v1 poll produces, the
\* available_sources of each decoder are the encoders of that snapshot,
\* whatever the matrix query returned.
C22_AvailableSourcesAreAllEncoders ==
    [][MergeStored =>
        \A d \in DOMAIN data'.devices :
            data'.devices[d].type = "decoder" =>
                data'.devices[d].available_sources =
                    { e \in DOMAIN data'.devices : data'.devices[e].type = "encoder" }]_vars

\* _async_update_data of the v2 coordinator returns.
BuildReturns == op.name = "_async_update_data" /\ op.pc = "build" /\ op'.pc = "returned"

\* The CoordinatorData the last call recorded in events returned.
ReturnedData == events[Len(events)][2]

\* The assignments of the matrix response the v2 coordinator holds.
HeldAssignments ==
    IF op.args.matrix.kind = "obj" THEN op.args.matrix.assignments ELSE << >>

\* The position of the last assignment of as whose rx is r.
LastFor(as, r) ==
    CHOOSE j \in 1..Len(as) : as[j].rx = r /\ \A k \in (j + 1)..Len(as) : as[k].rx # r

\* C23: the last assignment of a list with a given rx wins.  The mapping
\* process_matrix_assignments returns has one entry for each rx of the list,
\* whose value is the tx of the last assignment with that rx; the v1 poll
\* leaves every decoder that assignments name with the tx of the last of
\* them as its current_source.
C23_LastAssignmentWins ==
    [][/\ BuildReturns =>
            /\ DOMAIN ReturnedData'.matrix_assignments =
                   { HeldAssignments[j].rx : j \in 1..Len(HeldAssignments) }
            /\ \A r \in DOMAIN ReturnedData'.matrix_assignments :
                   ReturnedData'.matrix_assignments[r] =
                       HeldAssignments[LastFor(HeldAssignments, r)].tx
       /\ MergeStored =>
            \A d \in DOMAIN data'.devices :
                data'.devices[d].type = "decoder" /\ AssignedTo(d) # {} =>
                    data'.devices[d].current_source = LastSource(d)]_vars

\* process_matrix_assignments has returned the mapping of a list that names
\* RX1 twice, first with TX1 and last with TX2.
C23_Witness ==
    /\ op.name = "_async_update_data"
    /\ op.pc = "returned"
    /\ Len(op.args.matrix.assignments) = 3
    /\ op.args.matrix.assignments[1] = Assignment("RX1", "TX1")
    /\ op.args.matrix.assignments[3] = Assignment("RX1", "TX2")
    /\ ReturnedData.matrix_assignments = ("RX1" :> "TX2") @@ ("RX2" :> "TX1")

\* The names of the records of a status or info list.
Named(list) == { list[j].name : j \in 1..Len(list) }

\* The first record of list whose name is n.
FirstOf(list, n) ==
    list[CHOOSE j \in 1..Len(list) :
            list[j].name = n /\ \A k \in 1..(j - 1) : list[k].name # n]

\* The positions of the identity records the call is given that have a
\* status record and an info record of their name.
Joined ==
    { j \in 1..Len(op.args.device_json_list) :
        op.args.device_json_list[j].trueName \in
            Named(op.args.device_status_list) \cap Named(op.args.device_info_list) }

\* RoleOf(t) is the role a deviceType names in some letter case, None if it
\* names none.
RoleOf(t) ==
    IF t \in {"receiver", "RECEIVER", "Receiver"} THEN "receiver"
    ELSE IF t \in {"transmitter", "TRANSMITTER", "Transmitter"} THEN "transmitter"
    ELSE None

\* The true names of the identity records at the positions js.
TrueNames(js) == { op.args.device_json_list[j].trueName : j \in js }

\* The device that data holds under the name n, in whichever collection.
DeviceNamed(d, n) ==
    IF n \in DOMAIN d.device_transmitters THEN d.device_transmitters[n]
    ELSE d.device_receivers[n]

\* The names of the devices data holds.
DeviceNames(d) == DOMAIN d.device_transmitters \cup DOMAIN d.device_receivers

\* The device at position j takes its fields from its identity record and
\* from the first status and info records of its name.
DrawnFromAllThree(d, j) ==
    LET json == op.args.device_json_list[j]
        device == DeviceNamed(d, json.trueName)
    IN /\ device.true_name = json.trueName
       /\ device.alias_name = json.aliasName
       /\ device.device_type = json.deviceType
       /\ device.stream_resolution =
              FirstOf(op.args.device_status_list, json.trueName).stream_resolution
       /\ device.mac = FirstOf(op.args.device_info_list, json.trueName).mac

\* C24 (as stated): build_device_collections returns one device, keyed by
\* its trueName, for each identity record that has a status record and an
\* info record of its name, with fields from all three, and no other device.
C24_OneDevicePerJoinedRecord ==
    [][BuildReturns =>
        /\ DeviceNames(ReturnedData') = TrueNames(Joined)
        /\ DOMAIN ReturnedData'.device_transmitters
               \cap DOMAIN ReturnedData'.device_receivers = {}
        /\ \A j \in Joined : DrawnFromAllThree(ReturnedData', j)]_vars

\* The joined identity records whose deviceType names a role.
JoinedAndTyped ==
    { j \in Joined : RoleOf(op.args.device_json_list[j].deviceType) # None }

\* C24 (amended): build_device_collections returns one device, keyed by its
\* trueName, for each identity record that has a status record and an info
\* record of its name and whose deviceType is "receiver" or "transmitter" in
\* some letter case, with fields from all three, and no other device.
C24_OneDevicePerJoinedTypedRecord ==
    [][BuildReturns =>
        /\ DeviceNames(ReturnedData') = TrueNames(JoinedAndTyped)
        /\ DOMAIN ReturnedData'.device_transmitters
               \cap DOMAIN ReturnedData'.device_receivers = {}
        /\ \A j \in JoinedAndTyped : DrawnFromAllThree(ReturnedData', j)]_vars

\* Of a receiver and a transmitter, both with an info record, only the
\* receiver has a status record (two of them); a status and an info record
\* name no identity record.  The one device returned is the receiver, with
\* the fields of its first status record.
C24_Witness ==
    /\ op.name = "_async_update_data"
    /\ op.pc = "returned"
    /\ TrueNames(1..Len(op.args.device_json_list)) = {"RX1", "TX1"}
    /\ Named(op.args.device_status_list) = {"RX1"}
    /\ Named(op.args.device_info_list) = {"RX1", "TX1", "CT1", "ZZ9"}
    /\ DOMAIN ReturnedData.device_transmitters = {}
    /\ DOMAIN ReturnedData.device_receivers = {"RX1"}
    /\ ReturnedData.device_receivers["RX1"].mac = "mac-rx1"
    /\ ReturnedData.device_receivers["RX1"].stream_resolution = "1080p"

\* The joined identity records whose deviceType names no role.
JoinedUntyped == Joined \ JoinedAndTyped

\* C25: when build_device_collections is given an identity record, with its
\* status and info records, whose deviceType names no role, it returns, no
\* collection holds a device of that record's name, and every record that
\* has its status and info records and a deviceType that names a role has
\* its device.
C25_UnknownTypeIsSkipped ==
    [][BuildReturns /\ JoinedUntyped # {} =>
        /\ DeviceNames(ReturnedData') \cap TrueNames(JoinedUntyped) = {}
        /\ TrueNames(JoinedAndTyped) \subseteq DeviceNames(ReturnedData')]_vars

\* A receiver, a device of type "controller" and a transmitter, each with
\* status and info records, have been given: the receiver and the
\* transmitter were built, the third device was not.
C25_Witness ==
    /\ op.name = "_async_update_data"
    /\ op.pc = "returned"
    /\ Len(op.args.device_json_list) = 3
    /\ op.args.device_json_list[2] = DeviceJsonString("Wall", "CT1", "controller")
    /\ "CT1" \in Named(op.args.device_status_list) \cap Named(op.args.device_info_list)
    /\ DeviceNames(ReturnedData) = {"RX1", "TX1"}

\* C26: for every letter case of "receiver" and "transmitter" the device
\* built is of the subtype its deviceType names and is filed under that
\* role: transmitters holds the devices built from transmitter records and
\* only DeviceTransmitter values, receivers the devices built from receiver
\* records and only DeviceReceiver values.
C26_FiledUnderOwnRole ==
    [][BuildReturns =>
        /\ \A n \in DOMAIN ReturnedData'.device_transmitters :
               /\ ReturnedData'.device_transmitters[n].class = "DeviceTransmitter"
               /\ RoleOf(ReturnedData'.device_transmitters[n].device_type) = "transmitter"
        /\ \A n \in DOMAIN ReturnedData'.device_receivers :
               /\ ReturnedData'.device_receivers[n].class = "DeviceReceiver"
               /\ RoleOf(ReturnedData'.device_receivers[n].device_type) = "receiver"]_vars

---------------------------------------------------------------------------
(* Properties of the read operations of the v1 coordinator, over Spec.     *)

\* C27: in every state of the coordinator is_ready() is true exactly when a
\* snapshot exists, and has_errors() is true exactly when no snapshot exists
\* or the snapshot carries an error.
C27_ReadyAndErrorsFollowSnapshot ==
    /\ is_ready <=> data.exists
    /\ has_errors <=> (~data.exists \/ data.error)

\* A poll has failed and its error snapshot is the current one: the
\* coordinator is ready and has errors.
C27_Witness == data.exists /\ data.error /\ is_ready /\ has_errors

\* The device ids the read operations are asked for.
DeviceIds == {"TX1", "RX1", "ZZ9"}

\* C28: in every reachable state of the coordinator, the ones before the
\* first snapshot and after a failed poll included, get_device_info returns
\* a mapping or None, get_all_devices a mapping, get_device_count a natural
\* number and get_error_message a string or None; none of them raises.
C28_ReadsNeverRaise ==
    /\ \A id \in DeviceIds : get_device_info(id).type \in {"dict", "None"}
    /\ DOMAIN get_all_devices \subseteq {"TX1", "RX1"}
    /\ get_device_count \in Nat
    /\ get_error_message.type \in {"str", "None"}

---------------------------------------------------------------------------
(* wait_for_data (wyrestorm_networkhd/coordinator.py:735-753).  op.i is the *)
(* time since start_time in seconds.  Its calls are recorded in events as  *)
(* <<"sleep", seconds>>, <<"request_refresh">>, <<"raise", exception>> for *)
(* the exception it catches and <<"return", value>>.  While it awaits, a   *)
(* poll of the update interval may store a snapshot.                       *)

\* The timeouts wait_for_data is called with run from 0 to MaxTimeout.
MaxTimeout == 3

\* The snapshots a poll can store while wait_for_data awaits.
PolledSnapshots ==
    { ErrorSnapshot(1),
      GoodSnapshot(1, MergedDevices(validate_device_json(JsonList(<<TXon, RXon>>)),
                                    validate_matrix_response(MatrixNone),
                                    validate_device_status(DefaultStatus))) }

\* coordinator.py:739: not self.is_ready() and (time() - start_time) < timeout,
\* for the snapshot snap
KeepWaiting(snap, elapsed, timeout) ==
    ~(snap.exists /\ "devices" \in Keys(snap)) /\ elapsed < timeout

\* A variant of NeedsRefresh that asks for a refresh in every iteration.
NeedsRefresh_Always == TRUE

\* coordinator.py:747: if not self.data
NeedsRefresh == ~HasData

\* coordinator.py:739-753: the loop test at time elapsed, with self.data
\* being snap: the next sleep begins, or is_ready() is returned
TestLoop(snap, elapsed) ==
    IF KeepWaiting(snap, elapsed, op.args.timeout)
    THEN /\ op' = [op EXCEPT !.pc = "sleep", !.i = elapsed]
         /\ Log(<<"sleep", 1>>)
    ELSE /\ op' = [op EXCEPT !.pc = "returned", !.i = elapsed]
         /\ Log(<<"return", snap.exists /\ "devices" \in Keys(snap)>>)

\* coordinator.py:735-745: wait_for_data(timeout) runs to its first await or
\* to its return
StartWait(timeout) ==
    IF KeepWaiting(data, 0, timeout)
    THEN /\ op' = Call("wait_for_data", [timeout |-> timeout], "sleep")
         /\ LogAnew(<< <<"call", "wait_for_data">>, <<"sleep", 1>> >>)
    ELSE /\ op' = Call("wait_for_data", [timeout |-> timeout], "returned")
         /\ LogAnew(<< <<"call", "wait_for_data">>, <<"return", is_ready>> >>)

\* wait_for_data(timeout) is called.
WaitCalled ==
    /\ op.name = "none"
    /\ \E timeout \in 0..MaxTimeout : StartWait(timeout)
    /\ UNCHANGED <<connected, notification_task, data2, rest>>

\* coordinator.py:744-749: asyncio.sleep(1) returns; without data the
\* refresh is requested, otherwise the loop is tested
SleepReturns ==
    /\ op.name = "wait_for_data"
    /\ op.pc = "sleep"
    /\ IF NeedsRefresh
       THEN /\ op' = [op EXCEPT !.pc = "refresh", !.i = @ + 1]
            /\ Log(<<"request_refresh">>)
       ELSE TestLoop(data, op.i + 1)
    /\ UNCHANGED <<connected, notification_task, data2, rest>>

\* What this operation leaves alone, self.data apart.
restButData ==
    <<registered, s_pc, s_attempt, pollVars, polls, escaped, tracing, history, entry,
      hass, cache>>

\* coordinator.py:749: async_request_refresh() returns after the time d; the
\* refresh has stored a snapshot or has not
RefreshRequestReturns ==
    /\ op.name = "wait_for_data"
    /\ op.pc = "refresh"
    /\ \E d \in {0, 1} :
       \E snap \in {data} \cup (IF data.exists THEN {} ELSE PolledSnapshots) :
            /\ data' = snap
            /\ TestLoop(snap, op.i + d)
    /\ UNCHANGED <<connected, notification_task, data2, restButData>>

\* coordinator.py:750-751: async_request_refresh() raises and the exception
\* is logged
RefreshRequestRaises ==
    /\ op.name = "wait_for_data"
    /\ op.pc = "refresh"
    /\ LogAll(<< <<"raise", "Exception">>,
                  IF KeepWaiting(data, op.i, op.args.timeout)
                  THEN <<"sleep", 1>> ELSE <<"return", is_ready>> >>)
    /\ op' = [op EXCEPT !.pc = IF KeepWaiting(data, op.i, op.args.timeout)
                               THEN "sleep" ELSE "returned"]
    /\ UNCHANGED <<connected, notification_task, data2, rest>>

\* A poll of the update interval stores a snapshot while wait_for_data
\* sleeps.
PollStores ==
    /\ op.name = "wait_for_data"
    /\ op.pc = "sleep"
    /\ ~data.exists
    /\ data' \in PolledSnapshots
    /\ UNCHANGED <<connected, notification_task, data2, op, events, restButData>>

\* A v1 coordinator after async_setup, without a snapshot or with one.
InitWait ==
    /\ data \in {NoData} \cup PolledSnapshots
    /\ connected = TRUE
    /\ registered = TRUE
    /\ s_pc = "done"
    /\ s_attempt = 0
    /\ UpdateIdle
    /\ polls = 0
    /\ escaped = FALSE
    /\ tracing = TRUE
    /\ NoHistory
    /\ NoOperation

NextWait ==
    \/ WaitCalled
    \/ SleepReturns
    \/ RefreshRequestReturns
    \/ RefreshRequestRaises
    \/ PollStores

\* asyncio.sleep(1) returns, and the awaited async_request_refresh() returns
\* or raises.
FairWait ==
    /\ WF_vars(SleepReturns)
    /\ WF_vars(RefreshRequestReturns \/ RefreshRequestRaises)

SpecWait == InitWait /\ [][NextWait]_vars /\ FairWait

---------------------------------------------------------------------------
(* Properties of wait_for_data, over SpecWait.                             *)

\* The calls a step of wait_for_data adds to events.
Added == SubSeq(events', Len(events) + 1, Len(events'))

\* The kinds of the calls recorded in es.
KindsOf(es) == { es[j][1] : j \in 1..Len(es) }

\* How many of the calls recorded in es are of the kind k.
CountOf(es, k) == Cardinality({ j \in 1..Len(es) : es[j][1] = k })

\* wait_for_data has returned the value v.
WaitReturned(v) ==
    /\ op.name = "wait_for_data"
    /\ op.pc = "returned"
    /\ events[Len(events)] = <<"return", v>>

\* C29: wait_for_data(timeout) terminates and never raises.  Called with a
\* snapshot it returns true at once and requests no refresh.  Otherwise
\* each iteration sleeps one second and then, if there still is no data,
\* requests one refresh, whose exception goes no further; there are at most
\* timeout iterations.  It returns is_ready(): true only with a snapshot,
\* false only when there is none and the timeout has elapsed.
C29_WaitTerminatesAndReturnsReady ==
    /\ (op.name = "wait_for_data") ~> (op.pc = "returned")
    /\ [][/\ op'.pc # "raised"
          /\ (op.name = "none" /\ op'.name = "wait_for_data" /\ data.exists) =>
                /\ op'.pc = "returned"
                /\ events' = << <<"call", "wait_for_data">>, <<"return", TRUE>> >>
          /\ (op.pc = "sleep" /\ op'.pc # "sleep") =>
                IF data.exists
                THEN op'.pc = "returned" /\ "request_refresh" \notin KindsOf(Added)
                ELSE op'.pc = "refresh" /\ Added = << <<"request_refresh">> >>
          /\ (op.pc = "refresh" /\ op'.pc # "refresh") =>
                /\ op'.pc \in {"sleep", "returned"}
                /\ "request_refresh" \notin KindsOf(Added)
          /\ CountOf(events', "request_refresh") <= CountOf(events', "sleep")
          /\ CountOf(events', "sleep") <= op'.args.timeout
          /\ (op.pc # "returned" /\ op'.pc = "returned") =>
                /\ events'[Len(events')] = <<"return", data'.exists>>
                /\ ~data'.exists => op'.i >= op'.args.timeout]_vars

\* wait_for_data(2) was called without a snapshot, slept twice, requested a
\* refresh twice, of which the first raised, and returned false.
C29_Witness ==
    /\ WaitReturned(FALSE)
    /\ op.args.timeout = 2
    /\ ~data.exists
    /\ events = << <<"call", "wait_for_data">>, <<"sleep", 1>>, <<"request_refresh">>,
                   <<"raise", "Exception">>, <<"sleep", 1>>, <<"request_refresh">>,
                   <<"return", FALSE>> >>

---------------------------------------------------------------------------
(* async_setup_entry (wyrestorm_networkhd/__init__.py:52-142): it awaits   *)
(* async_setup of the coordinator it has constructed and, without data,    *)
(* wait_for_data; then it stores the coordinator in hass.data, forwards    *)
(* the platforms and registers the services.                               *)

\* The timeout async_setup_entry gives wait_for_data (__init__.py:91 gives
\* 30).
EntryTimeout == 2

\* What async_setup_entry itself leaves alone.
coordinatorState ==
    <<data, connected, registered, s_pc, s_attempt, pollVars, polls, escaped, tracing,
      history, notification_task, data2, hass, cache>>

\* __init__.py:100-105: both except clauses raise ConfigEntryNotReady
NotReady == [entry EXCEPT !.pc = "raised", !.exception = "ConfigEntryNotReady"]

\* __init__.py:108-114: the coordinator is stored in hass.data and the
\* firmware version is queried
Stored == [entry EXCEPT !.pc = "version", !.stored = TRUE]

\* A variant of ComesUp that goes on after wait_for_data whatever it
\* returned.
ComesUp_Always(ready) == TRUE

\* __init__.py:91: if not await coordinator.wait_for_data(timeout=30): raise
ComesUp(ready) == ready

\* __init__.py:84-86, 100-105: async_setup raises, and async_setup_entry raises
\* ConfigEntryNotReady from it
EntrySetupRaises ==
    /\ entry.pc = "async_setup"
    /\ s_pc = "failed"
    /\ entry' = NotReady
    /\ UNCHANGED <<coordinatorState, op, events>>

\* __init__.py:86-91, 108-109: async_setup returns; without data
\* wait_for_data is awaited, with data the coordinator is stored
EntrySetupReturns ==
    /\ entry.pc = "async_setup"
    /\ s_pc = "done"
    /\ pc = "idle"
    /\ IF ~HasData
       THEN /\ entry' = [entry EXCEPT !.pc = "wait_for_data"]
            /\ StartWait(EntryTimeout)
       ELSE /\ entry' = Stored
            /\ UNCHANGED <<op, events>>
    /\ UNCHANGED coordinatorState

\* __init__.py:91-109: wait_for_data returns is_ready(); false raises
\* ConfigEntryNotReady, true lets the coordinator be stored
EntryWaitReturns ==
    /\ entry.pc = "wait_for_data"
    /\ op.name = "wait_for_data"
    /\ op.pc = "returned"
    /\ entry' = IF ComesUp(is_ready) THEN Stored ELSE NotReady
    /\ UNCHANGED <<coordinatorState, op, events>>

\* __init__.py:111-133: the version query returns or raises, the controller
\* device is created and the platforms are forwarded
EntryVersionQueried ==
    /\ entry.pc = "version"
    /\ entry' = [entry EXCEPT !.pc = "forward"]
    /\ UNCHANGED <<coordinatorState, op, events>>

\* __init__.py:133-136: the platforms have been set up, the services are
\* registered
EntryPlatformsForwarded ==
    /\ entry.pc = "forward"
    /\ entry' = [entry EXCEPT !.pc = "services", !.forwarded = TRUE]
    /\ UNCHANGED <<coordinatorState, op, events>>

\* __init__.py:136-142: the services have been registered, async_setup_entry
\* returns True
EntryServicesRegistered ==
    /\ entry.pc = "services"
    /\ entry' = [entry EXCEPT !.pc = "returned", !.services = TRUE]
    /\ UNCHANGED <<coordinatorState, op, events>>

\* async_setup_entry has constructed the coordinator and awaits its
\* async_setup.
InitEntry ==
    /\ data = NoData
    /\ Constructed
    /\ s_attempt = 0
    /\ UpdateIdle
    /\ polls = 0
    /\ escaped = FALSE
    /\ tracing = TRUE
    /\ NoHistory
    /\ notification_task = None
    /\ data2 = NoData2
    /\ op = Idle
    /\ events = << >>
    /\ entry = [NoEntry EXCEPT !.pc = "async_setup"]
    /\ hass = NoHass
    /\ cache = NoCache

NextEntry ==
    \/ SetupConnect
    \/ SetupSleep
    \/ QueryReturns
    \/ QueryRaises
    \/ attempt_reconnect
    \/ RetrySleep
    \/ ProcessResults
    \/ OuterSleep
    \/ ConnectionLost
    \/ EntrySetupRaises
    \/ EntrySetupReturns
    \/ SleepReturns
    \/ RefreshRequestReturns
    \/ RefreshRequestRaises
    \/ PollStores
    \/ EntryWaitReturns
    \/ EntryVersionQueried
    \/ EntryPlatformsForwarded
    \/ EntryServicesRegistered

SpecEntry == InitEntry /\ [][NextEntry]_vars

---------------------------------------------------------------------------
(* Properties of async_setup_entry, over SpecEntry.                        *)

\* Nothing of the integration has come up in the entry state e.
NothingUp(e) == ~e.stored /\ ~e.forwarded /\ ~e.services

\* C30: when async_setup of the coordinator raises, and when there is no
\* snapshot after it and wait_for_data returns false, async_setup_entry
\* raises ConfigEntryNotReady, and nothing has come up then or before: the
\* coordinator is not stored, no platform is forwarded and no service is
\* registered.
C30_NotReadyBringsNothingUp ==
    [][/\ s_pc' = "failed" => entry'.pc \in {"async_setup", "raised"}
       /\ (entry.pc = "async_setup" /\ s_pc = "failed" /\ entry' # entry) =>
              entry'.pc = "raised" /\ entry'.exception = "ConfigEntryNotReady"
       /\ (entry.pc = "wait_for_data" /\ WaitReturned(FALSE) /\ entry' # entry) =>
              entry'.pc = "raised" /\ entry'.exception = "ConfigEntryNotReady"
       /\ entry'.pc \in {"async_setup", "wait_for_data", "raised"} => NothingUp(entry')
      ]_vars

\* async_setup has returned, wait_for_data has returned false after its
\* timeout and async_setup_entry has raised ConfigEntryNotReady with nothing
\* brought up.
C30_Witness ==
    /\ entry.pc = "raised"
    /\ entry.exception = "ConfigEntryNotReady"
    /\ s_pc = "done"
    /\ WaitReturned(FALSE)
    /\ NothingUp(entry)

\* C34: in the v1 poll a device whose deviceType is neither "transmitter"
\* nor "receiver" in any letter case is skipped: the devices collection of
\* the snapshot the poll stores has no entry for it.
C34_UnknownTypeNotPublished ==
    [][MergeStored =>
        \A id \in JsonIds(validate_device_json(device_json)) :
            RoleOf(RawDeviceType(validate_device_json(device_json), id)) = None =>
                id \notin DOMAIN data'.devices]_vars

---------------------------------------------------------------------------
(* Properties of async_setup and async_setup_entry, over SpecSetup and     *)
(* SpecEntry.                                                              *)

\* C36: when async_setup of the v1 coordinator has returned normally the
\* coordinator holds a snapshot, before any refresh is requested and before
\* wait_for_data is called: is_ready() is true.
C36_ReadyWhenSetupReturns == (s_pc = "done" /\ polls = 0 /\ op.name = "none") => is_ready

\* C39: whenever async_setup_entry has raised ConfigEntryNotReady, after a
\* setup error or after the timeout of wait_for_data, the transport is not
\* connected and no notification callback is registered.
C39_FailedSetupLeavesNothingConnected ==
    entry.pc = "raised" => ~connected /\ ~registered

(* Properties of the published power state, over SpecNotify. *)

\* A device's power_state agrees with its two HDMI flags.
PowerFollowsHdmi(dev) ==
    dev.power_state = (IF dev.hdmi_in_active \/ dev.hdmi_out_active THEN "on" ELSE "off")

\* C37: in every published snapshot, each device that has status data (its
\* power_state was computed, so it is not "unknown") has power_state "on"
\* exactly when hdmi_in_active or hdmi_out_active is true and "off"
\* otherwise, after polls and after video notifications between polls.
C37_PowerStateFollowsHdmi ==
    is_ready =>
        \A id \in DOMAIN data.devices :
            data.devices[id].power_state # "unknown" => PowerFollowsHdmi(data.devices[id])

---------------------------------------------------------------------------
(* A poll racing with endpoint notifications (coordinator.py:152-184,      *)
(* 406-698).  A snapshot is published, polls run, and the transport        *)
(* delivers endpoint notifications only while a poll is in flight after    *)
(* the return of its identity query ("config get devicejsonstring").       *)

\* The poll in flight holds the response of its identity query.
IdentityQueryReturned == pc = "query" /\ stage # "json"

\* The notifications delivered: RX1 went online or offline.
RacePayloads ==
    { Payload("obj", ("device_id" :> "RX1") @@ ("online" :> v)) : v \in {"True", "False"} }

\* handle_endpoint_notification called between two awaits of such a poll.
NotifiedInFlight ==
    /\ IdentityQueryReturned
    /\ \E n \in RacePayloads : handle_endpoint_notification(n)

InitRace ==
    /\ data \in PublishedSnapshots
    /\ connected = TRUE
    /\ registered = TRUE
    /\ s_pc = "done"
    /\ s_attempt = 0
    /\ UpdateIdle
    /\ polls = 1
    /\ escaped = FALSE
    /\ tracing = TRUE
    /\ NoHistory
    /\ NoOperation

NextRace ==
    \/ Refresh
    \/ QueryReturns
    \/ QueryRaises
    \/ attempt_reconnect
    \/ RetrySleep
    \/ ProcessResults
    \/ OuterSleep
    \/ ConnectionLost
    \/ NotifiedInFlight

SpecRace == InitRace /\ [][NextRace]_vars

\* The last notification handled patched the online flag of a published
\* device, after the identity query of the only attempt of the running poll.
PatchedInFlight ==
    /\ attempt = 0
    /\ notification # NoNotification
    /\ extracted \in DOMAIN data.devices
    /\ extract_online_status_from_notification(notification) \in {"True", "False"}

\* C35: when an endpoint notification for a device was handled while a poll
\* was in flight after its identity query had returned, the snapshot
\* published at the completion of that poll has, for that device, the online
\* value of the notification.
C35_NotifiedOnlineSurvivesPoll ==
    [][(MergeStored /\ caller = "refresh" /\ PatchedInFlight
            /\ extracted \in DOMAIN data'.devices)
        => data'.devices[extracted].online
               = (extract_online_status_from_notification(notification) = "True")]_vars

---------------------------------------------------------------------------
(* The availability of the per-device entities of the v1 integration       *)
(* (select.py:131-138, button.py:125-136, 188-199), read from the          *)
(* coordinator's snapshot.                                                 *)

\* dict.get("online", default) of the record of device_id, default when the
\* snapshot has no such device
OnlineOr(device_id, default) ==
    IF device_id \in DOMAIN data.devices THEN data.devices[device_id].online ELSE default

\* A variant of select_available that takes a missing device for online.
select_available_MissingIsOnline(device_id) ==
    IF ~HasData THEN FALSE ELSE OnlineOr(device_id, TRUE)

\* select.py:131-138: WyreStormSourceSelect.available
select_available(device_id) ==
    IF ~HasData THEN FALSE ELSE OnlineOr(device_id, FALSE)

\* button.py:125-136, 188-199: available of the two sink-power buttons
button_available(device_id) ==
    IF ~HasData THEN FALSE
    ELSE IF device_id \notin DOMAIN data.devices THEN FALSE
    ELSE OnlineOr(device_id, FALSE)

---------------------------------------------------------------------------
(* CoordinatorData.update_device and remove_device (wyrestorm_networkhd/   *)
(* models/coordinator.py:53-96), called in any order on one                *)
(* CoordinatorData.  A device is its class, its true_name and its          *)
(* alias_name; the collections map true names to alias names.              *)

DataNames == {"RX1", "TX1"}
DataAliases == {"Display1", "Source1"}

\* The devices update_device is given; a DeviceController is neither a
\* receiver nor a transmitter.
DataDevices ==
    { [class |-> c, true_name |-> n, alias_name |-> a] :
        c \in {"DeviceReceiver", "DeviceTransmitter", "DeviceController"},
        n \in DataNames, a \in DataAliases }

\* The bool b as Python writes it.
BoolName(b) == IF b THEN "True" ELSE "False"

\* del d[key]
Without(d, key) == [k \in DOMAIN d \ {key} |-> d[k]]

\* models/coordinator.py:53-75: update_device(device)
update_device ==
    \E device \in DataDevices :
        LET key == device.true_name
        IN /\ IF device.class = "DeviceReceiver"
              THEN /\ data2' = [data2 EXCEPT !.receivers = (key :> device.alias_name) @@ @]
                   /\ LogAnew(<<<<"update_device", device,
                                  BoolName(key \in DOMAIN data2.receivers)>>>>)
              ELSE IF device.class = "DeviceTransmitter"
              THEN /\ data2' = [data2 EXCEPT !.transmitters = (key :> device.alias_name) @@ @]
                   /\ LogAnew(<<<<"update_device", device,
                                  BoolName(key \in DOMAIN data2.transmitters)>>>>)
              ELSE /\ LogAnew(<<<<"update_device", device, "ValueError">>>>)
                   /\ UNCHANGED data2
           /\ UNCHANGED <<connected, notification_task, op, entry, rest>>

\* models/coordinator.py:77-96: remove_device(true_name)
remove_device ==
    \E true_name \in DataNames :
        /\ IF true_name \in DOMAIN data2.receivers
           THEN /\ data2' = [data2 EXCEPT !.receivers = Without(@, true_name)]
                /\ LogAnew(<<<<"remove_device", true_name, "True">>>>)
           ELSE IF true_name \in DOMAIN data2.transmitters
           THEN /\ data2' = [data2 EXCEPT !.transmitters = Without(@, true_name)]
                /\ LogAnew(<<<<"remove_device", true_name, "True">>>>)
           ELSE /\ LogAnew(<<<<"remove_device", true_name, "False">>>>)
                /\ UNCHANGED data2
        /\ UNCHANGED <<connected, notification_task, op, entry, rest>>

\* A CoordinatorData without devices, as the dataclass constructs it.
InitData ==
    /\ data = NoData
    /\ connected = TRUE
    /\ registered = FALSE
    /\ s_pc = "done"
    /\ s_attempt = 0
    /\ UpdateIdle
    /\ polls = 0
    /\ escaped = FALSE
    /\ tracing = TRUE
    /\ NoHistory
    /\ notification_task = None
    /\ data2 = CoordinatorData(1, << >>, << >>)
    /\ op = Idle
    /\ events = << >>
    /\ entry = NoEntry
    /\ hass = NoHass
    /\ cache = NoCache

NextData ==
    \/ update_device
    \/ remove_device

SpecData == InitData /\ [][NextData]_vars

\* A device of the name is stored in the CoordinatorData d.
StoredIn(d, n) == n \in DOMAIN d.receivers \/ n \in DOMAIN d.transmitters

\* The call that has just returned, and what it returned.
DataCall == events'[1]

\* C40: after any sequence of update_device and remove_device calls, no
\* true_name is a key of both device_receivers and device_transmitters;
\* update_device returns true exactly when a device of that true_name was
\* already stored; remove_device(n) returns true exactly when n was stored
\* and leaves no device of name n in either collection.
C40_OneDevicePerTrueName ==
    [][(events' # events \/ data2' # data2) =>
        /\ DOMAIN data2'.receivers \cap DOMAIN data2'.transmitters = {}
        /\ (DataCall[1] = "update_device" /\ DataCall[3] # "ValueError") =>
               (DataCall[3] = "True" <=> StoredIn(data2, DataCall[2].true_name))
        /\ DataCall[1] = "remove_device" =>
               /\ DataCall[3] = "True" <=> StoredIn(data2, DataCall[2])
               /\ ~StoredIn(data2', DataCall[2])]_vars

---------------------------------------------------------------------------
(* cache_for_seconds (_cache_utils.py:9-67): one decorated method, called  *)
(* with arguments from CacheArgs while the clock advances.  The wrapper    *)
(* awaits the underlying function, so calls overlap.  cache.completed and  *)
(* cache.returned are history: the last completed underlying call of each  *)
(* argument (valid until clear_cache is called) and the last return of the *)
(* wrapper.                                                                *)

CacheSeconds == 2
MaxClock == 4
MaxRunning == 2
CacheResults == {"r1", "r2"}

\* What the wrapper and clear_cache leave alone.
butCache ==
    <<data, connected, registered, s_pc, s_attempt, pollVars, polls, escaped, tracing,
      history, notification_task, data2, op, events, entry, hass>>

\* The calls of the wrapper that await the underlying function.
RunningSlots == { r[1] : r \in cache.running }

\* A variant of Fresh that also accepts an entry exactly seconds old.
Fresh_Inclusive(elapsed, seconds) == elapsed <= seconds

\* _cache_utils.py:46-47: elapsed < seconds
Fresh(elapsed, seconds) == elapsed < seconds

\* _cache_utils.py:45-47: the wrapper finds a valid cached result
CacheHit(cache_key) ==
    /\ cache_key \in DOMAIN cache.cache
    /\ cache_key \in DOMAIN cache.cache_time
    /\ Fresh(cache.time - cache.cache_time[cache_key], CacheSeconds)

\* _cache_utils.py:40-51: the wrapper is called; it returns the cached
\* result or calls the underlying function and awaits it
WrapperCalled ==
    /\ \E args \in CacheArgs :
        IF CacheHit(args)
        THEN cache' = [cache EXCEPT !.returned =
                          [args |-> args, result |-> cache.cache[args], invoked |-> FALSE]]
        ELSE /\ Cardinality(cache.running) < MaxRunning
             /\ \E slot \in 1..MaxRunning :
                  /\ slot \notin RunningSlots
                  /\ \A other \in 1..(slot - 1) : other \in RunningSlots
                  /\ cache' = [cache EXCEPT !.running = @ \cup {<<slot, args>>}]
    /\ UNCHANGED butCache

\* _cache_utils.py:51-57: the underlying function returns; the result and
\* the time are stored and the result is returned
UnderlyingReturns ==
    /\ \E r \in cache.running, result \in CacheResults :
        cache' = [cache EXCEPT
                     !.cache = (r[2] :> result) @@ @,
                     !.cache_time = (r[2] :> cache.time) @@ @,
                     !.running = @ \ {r},
                     !.completed[r[2]] = [result |-> result, time |-> cache.time,
                                          valid |-> TRUE],
                     !.returned = [args |-> r[2], result |-> result, invoked |-> TRUE]]
    /\ UNCHANGED butCache

\* _cache_utils.py:51: the underlying function raises; the exception leaves
\* the wrapper
UnderlyingRaises ==
    /\ \E r \in cache.running :
        cache' = [cache EXCEPT
                     !.running = @ \ {r},
                     !.returned = [args |-> r[2], result |-> "raise", invoked |-> TRUE]]
    /\ UNCHANGED butCache

\* _cache_utils.py:60-62: clear_cache()
clear_cache ==
    /\ cache' = [cache EXCEPT
                    !.cache = << >>,
                    !.cache_time = << >>,
                    !.completed = [k \in CacheArgs |-> [@[k] EXCEPT !.valid = FALSE]]]
    /\ UNCHANGED butCache

\* time.time() advances by a second.
TimePasses ==
    /\ cache.time < MaxClock
    /\ cache' = [cache EXCEPT !.time = @ + 1]
    /\ UNCHANGED butCache

InitCache ==
    /\ data = NoData
    /\ connected = FALSE
    /\ registered = FALSE
    /\ s_pc = "done"
    /\ s_attempt = 0
    /\ UpdateIdle
    /\ polls = 0
    /\ escaped = FALSE
    /\ tracing = TRUE
    /\ NoHistory
    /\ NoOperation

NextCache ==
    \/ WrapperCalled
    \/ UnderlyingReturns
    \/ UnderlyingRaises
    \/ clear_cache
    \/ TimePasses

SpecCache == InitCache /\ [][NextCache]_vars

\* An underlying call with the arguments has completed less than
\* CacheSeconds ago and clear_cache has not been called since.
RecentlyCompleted(args) ==
    /\ cache.completed[args].valid
    /\ cache.time - cache.completed[args].time < CacheSeconds

\* The step calls the underlying function with the arguments.
Invokes(args) == \E slot \in 1..MaxRunning :
    <<slot, args>> \in cache'.running \ cache.running

\* The step returns a result for the arguments without calling the
\* underlying function.
ReturnsCached(args) ==
    /\ cache'.returned # cache.returned
    /\ cache'.returned.args = args
    /\ ~cache'.returned.invoked

\* The step is the underlying function raising.
Raises == cache'.returned # cache.returned /\ cache'.returned.result = "raise"

\* C33: a call made less than CacheSeconds after the last completed
\* underlying call with the same arguments returns that call's result
\* without invoking the underlying function; a call made CacheSeconds or
\* more after it, or after clear_cache(), invokes the underlying function;
\* a call whose underlying function raises stores nothing in the cache.
C33_CachedForSeconds ==
    [][/\ \A args \in CacheArgs :
            /\ Invokes(args) => ~RecentlyCompleted(args)
            /\ ReturnsCached(args) =>
                   /\ RecentlyCompleted(args)
                   /\ cache'.returned.result = cache.completed[args].result
       /\ Raises => /\ cache'.cache = cache.cache
                    /\ cache'.cache_time = cache.cache_time]_vars

\* A call has returned the cached result of a call completed a second ago.
C33_Witness ==
    /\ cache.returned.args = "a"
    /\ ~cache.returned.invoked
    /\ cache.returned.result = "r2"
    /\ cache.completed["a"].valid
    /\ cache.time = cache.completed["a"].time + 1
    /\ cache.completed["b"] = NeverCompleted

---------------------------------------------------------------------------
(* The config entries of one Home Assistant instance (__init__.py:52-168,  *)
(* 171-314).  async_setup_entry and async_unload_entry of different        *)
(* entries interleave at their awaits.  hass.data maps the entries whose   *)
(* coordinator is stored to that coordinator, hass.services is the         *)
(* coordinator the registered handlers were created with, hass.pc is where *)
(* each entry stands.  hass.shut_down and hass.executed are history: the   *)
(* coordinators whose async_shutdown has returned and the coordinator that *)
(* executed the last service call.                                         *)

MaxSetups == 2

\* What the entries' setups, unloads and service calls leave alone.
butHass ==
    <<data, connected, registered, s_pc, s_attempt, pollVars, polls, escaped, tracing,
      history, notification_task, data2, op, events, entry, cache>>

\* The coordinator the running or last setup of the entry constructed.
CoordinatorOf(e) == <<e, hass.setups[e]>>

\* A variant of LastEntry that takes every unload for the last one.
LastEntry_Always(stored) == TRUE

\* __init__.py:164: not hass.data[DOMAIN]
LastEntry(stored) == DOMAIN stored = {}

\* __init__.py:52-86: async_setup_entry constructs the client and the
\* coordinator and awaits async_setup
SetupEntryCalled ==
    /\ \E e \in Entries :
        /\ hass.pc[e] = "not_loaded"
        /\ hass.setups[e] < MaxSetups
        /\ hass' = [hass EXCEPT !.pc[e] = "setup", !.setups[e] = @ + 1]
    /\ UNCHANGED butHass

\* __init__.py:84-105: ConfigEntryNotReady is raised
SetupEntryRaises ==
    /\ \E e \in Entries :
        /\ hass.pc[e] = "setup"
        /\ hass' = [hass EXCEPT !.pc[e] = "not_loaded"]
    /\ UNCHANGED butHass

\* __init__.py:108-114: the coordinator is stored in hass.data[DOMAIN] and
\* the version query is awaited
CoordinatorStored ==
    /\ \E e \in Entries :
        /\ hass.pc[e] = "setup"
        /\ hass' = [hass EXCEPT !.pc[e] = "stored",
                                !.data = (e :> CoordinatorOf(e)) @@ @]
    /\ UNCHANGED butHass

\* __init__.py:133-142, 302-314: the platforms are forwarded, then
\* _async_register_services registers its two handlers unless the services
\* exist; the handlers are closures over this entry's coordinator
ServicesRegistered ==
    /\ \E e \in Entries :
        /\ hass.pc[e] = "stored"
        /\ hass' = [hass EXCEPT !.pc[e] = "loaded",
                                !.services = IF @ = NoCoordinator
                                             THEN CoordinatorOf(e) ELSE @]
    /\ UNCHANGED butHass

\* __init__.py:151-156: async_unload_entry awaits async_unload_platforms
UnloadEntryCalled ==
    /\ \E e \in Entries :
        /\ hass.pc[e] = "loaded"
        /\ hass' = [hass EXCEPT !.pc[e] = "unloading"]
    /\ UNCHANGED butHass

\* __init__.py:156-161, 168: the platforms are unloaded or not; if they are,
\* the coordinator is popped and its async_shutdown awaited, if not, False
\* is returned
UnloadPlatformsReturns ==
    /\ \E e \in Entries, unload_ok \in BOOLEAN :
        /\ hass.pc[e] = "unloading"
        /\ hass' = IF unload_ok
                   THEN [hass EXCEPT !.pc[e] = "shutdown", !.data = Without(@, e)]
                   ELSE [hass EXCEPT !.pc[e] = "loaded"]
    /\ UNCHANGED butHass

\* __init__.py:161-168: async_shutdown returns; the services are removed if
\* no coordinator is stored, and True is returned
ShutdownReturns ==
    /\ \E e \in Entries :
        /\ hass.pc[e] = "shutdown"
        /\ hass' = [hass EXCEPT !.pc[e] = "not_loaded",
                                !.shut_down = @ \cup {CoordinatorOf(e)},
                                !.services = IF LastEntry(hass.data)
                                             THEN NoCoordinator ELSE @]
    /\ UNCHANGED butHass

\* __init__.py:174-300: a registered service is called; the handler runs on
\* the coordinator it was created with
ServiceCalled ==
    /\ hass.services # NoCoordinator
    /\ hass' = [hass EXCEPT !.executed = hass.services]
    /\ UNCHANGED butHass

InitEntries ==
    /\ data = NoData
    /\ connected = FALSE
    /\ registered = FALSE
    /\ s_pc = "done"
    /\ s_attempt = 0
    /\ UpdateIdle
    /\ polls = 0
    /\ escaped = FALSE
    /\ tracing = TRUE
    /\ NoHistory
    /\ NoOperation

NextEntries ==
    \/ SetupEntryCalled
    \/ SetupEntryRaises
    \/ CoordinatorStored
    \/ ServicesRegistered
    \/ UnloadEntryCalled
    \/ UnloadPlatformsReturns
    \/ ShutdownReturns
    \/ ServiceCalled

SpecEntries == InitEntries /\ [][NextEntries]_vars

\* The services are registered.
HasService(h) == h.services # NoCoordinator

\* The step ends the unload of the entry.
Unloaded(e) == hass.pc[e] = "shutdown" /\ hass'.pc[e] = "not_loaded"

\* C31: async_unload_entry removes the entry's coordinator from hass.data
\* and shuts it down only when the platform unload succeeded; the two
\* services are removed exactly when an unload ends that leaves no entry in
\* hass.data, an unload that leaves another entry there leaves them alone,
\* and they are registered whenever an entry is loaded.
C31_ServicesRemovedWithLastEntry ==
    [][/\ \A e \in Entries :
            /\ (hass.pc[e] = "unloading" /\ hass'.pc[e] = "loaded") =>
                   /\ hass'.data = hass.data
                   /\ hass'.shut_down = hass.shut_down
                   /\ hass'.services = hass.services
            /\ (e \in DOMAIN hass.data /\ e \notin DOMAIN hass'.data) =>
                   hass.pc[e] = "unloading" /\ hass'.pc[e] = "shutdown"
            /\ (CoordinatorOf(e) \in hass'.shut_down \ hass.shut_down) =>
                   Unloaded(e) /\ e \notin DOMAIN hass.data
            /\ Unloaded(e) =>
                   hass'.services = IF DOMAIN hass'.data = {} THEN NoCoordinator
                                    ELSE hass.services
            /\ hass'.pc[e] = "loaded" => HasService(hass')
       /\ (HasService(hass) /\ ~HasService(hass')) =>
              \E e \in Entries : Unloaded(e) /\ DOMAIN hass'.data = {}]_vars

\* One entry has been unloaded and shut down while the other stays loaded
\* with the services registered.
C31_Witness ==
    /\ hass.pc["e1"] = "not_loaded"
    /\ <<"e1", 1>> \in hass.shut_down
    /\ hass.pc["e2"] = "loaded"
    /\ HasService(hass)

\* The coordinators of the entries that are loaded: their setup has
\* returned True and no unload has popped them.
LoadedCoordinators(h) ==
    { h.data[e] : e \in { l \in DOMAIN h.data : h.pc[l] \in {"loaded", "unloading"} } }

\* C38: whenever at least one entry is loaded, a matrix_set or
\* power_control call is executed by the coordinator of a loaded entry,
\* never by one that has been shut down.
C38_ServiceRunsOnLoadedCoordinator ==
    [][(hass'.executed # hass.executed /\ LoadedCoordinators(hass) # {}) =>
           /\ hass'.executed \in LoadedCoordinators(hass)
           /\ hass'.executed \notin hass.shut_down]_vars

=============================================================================
